---- MODULE Spec2Model ----
(***************************************************************************)
(* The tag resolution and link injection engine of src/index.js: the tag   *)
(* registry, the fuzzy tag extractor, the intent resolver, the placeholder *)
(* resolver, the link sanitizer, the section enforcer and the footer, and  *)
(* the POST /chat handler that runs them.                                  *)
(*                                                                         *)
(* A text is a sequence of symbols.  A symbol is a one-character string,   *)
(* or an atom: a long literal of the source (a collection URL, a           *)
(* placeholder keyword, a label) that the source's regular expressions     *)
(* only ever match as a whole.  Tag names, placeholder names, raw link     *)
(* tags and user messages are sequences of one-character symbols, so that  *)
(* lower-casing, trimming, percent-encoding and slugs are computed         *)
(* character by character.                                                 *)
(***************************************************************************)
EXTENDS Integers, Sequences, FiniteSets, TLC

(* ------------------------------ bounds -------------------------------- *)
\* The generator's reply has at most MaxLines lines.
MaxLines == 2

(* --------------------------- text helpers ----------------------------- *)
\* null, undefined and '' are all falsy in the source and are one value here.
None == << >>

\* The value of an expression whose evaluation threw URIError.
URIError == <<"#URIError">>

\* a || b of the source, an exception in a propagating.
OrElse(a, b) == IF a = URIError THEN URIError ELSE IF a # None THEN a ELSE b

LowerTable ==
  ("A" :> "a") @@ ("B" :> "b") @@ ("C" :> "c") @@ ("D" :> "d") @@ ("E" :> "e") @@
  ("F" :> "f") @@ ("G" :> "g") @@ ("H" :> "h") @@ ("I" :> "i") @@ ("J" :> "j") @@
  ("K" :> "k") @@ ("L" :> "l") @@ ("M" :> "m") @@ ("N" :> "n") @@ ("O" :> "o") @@
  ("P" :> "p") @@ ("Q" :> "q") @@ ("R" :> "r") @@ ("S" :> "s") @@ ("T" :> "t") @@
  ("U" :> "u") @@ ("V" :> "v") @@ ("W" :> "w") @@ ("X" :> "x") @@ ("Y" :> "y") @@
  ("Z" :> "z")

LowerLetters == {LowerTable[c] : c \in DOMAIN LowerTable}
Digits == {"0","1","2","3","4","5","6","7","8","9"}

toLowerChar(c) == IF c \in DOMAIN LowerTable THEN LowerTable[c] ELSE c

\* String.prototype.toLowerCase
toLowerCase(s) == [i \in 1..Len(s) |-> toLowerChar(s[i])]

\* \s of a regular expression
IsSpace(c) == c \in {" ", "\n", "\t"}

\* \w of a regular expression
IsWord(c) == c \in DOMAIN LowerTable \/ c \in LowerLetters \/ c \in Digits \/ c = "_"

\* The least element of a non-empty set of integers.
Min(S) == CHOOSE x \in S : \A y \in S : x <= y
Max(S) == CHOOSE x \in S : \A y \in S : y <= x

\* The element of a one-element set.  {F(x) : x \in {e}} computes e once
\* and F from its value.
The(S) == CHOOSE x \in S : TRUE

\* The least index of hits, or dflt when there is none.
FirstOr(hits, dflt) == IF hits = {} THEN dflt ELSE Min(hits)

\* Where a run of s that starts at index i and is not stopped ends.
EndFrom(s, i) == IF i > Len(s) THEN i ELSE Len(s) + 1

\* The index after the longest run of whitespace of s that starts at i.
SkipSpaces(s, i) == FirstOr({k \in i..Len(s) : ~IsSpace(s[k])}, EndFrom(s, i))

\* String.prototype.trim
trim(s) ==
  LET a == SkipSpaces(s, 1)
      hits == {k \in 1..Len(s) : ~IsSpace(s[k])}
      b == IF hits = {} THEN 0 ELSE Max(hits)
  IN IF a > b THEN << >> ELSE SubSeq(s, a, b)

RECURSIVE FlattenRange(_, _, _)
FlattenRange(ss, lo, hi) ==
  IF lo > hi THEN << >>
  ELSE IF lo = hi THEN ss[lo]
  ELSE FlattenRange(ss, lo, (lo + hi) \div 2) \o FlattenRange(ss, (lo + hi) \div 2 + 1, hi)

\* The concatenation of a sequence of texts.
Flatten(ss) == FlattenRange(ss, 1, Len(ss))

\* The first index k >= i with s[k] = c, or 0.
IndexFrom(s, c, i) ==
  LET hits == {k \in i..Len(s) : s[k] = c}
  IN IF hits = {} THEN 0 ELSE Min(hits)

(* ---------------------- percent-encoding ------------------------------ *)
HexDigits == Digits \cup {"A","B","C","D","E","F","a","b","c","d","e","f"}

\* The characters of the model's alphabet that encodeURIComponent escapes.
PercentTable ==
  (" " :> <<"%","2","0">>) @@ ("&" :> <<"%","2","6">>) @@ ("%" :> <<"%","2","5">>) @@
  ("/" :> <<"%","2","F">>) @@ (":" :> <<"%","3","A">>) @@ ("[" :> <<"%","5","B">>) @@
  ("]" :> <<"%","5","D">>) @@ ("\n" :> <<"%","0","A">>) @@ ("?" :> <<"%","3","F">>) @@
  ("=" :> <<"%","3","D">>) @@ ("," :> <<"%","2","C">>)

\* encodeURIComponent: letters, digits and - _ . ! ~ * ' ( ) are kept.
encodeURIComponent(s) ==
  Flatten([i \in 1..Len(s) |->
             IF s[i] \in DOMAIN PercentTable THEN PercentTable[s[i]] ELSE <<s[i]>>])

\* A character outside the model's alphabet.
OtherChar == "#other"

\* The character a %XX escape stands for.
Unescape(h1, h2) ==
  LET hit == {c \in DOMAIN PercentTable :
                PercentTable[c] = <<"%", h1, h2>> \/
                toLowerCase(PercentTable[c]) = <<"%", toLowerChar(h1), toLowerChar(h2)>>}
  IN IF hit = {} THEN OtherChar ELSE CHOOSE c \in hit : TRUE

RECURSIVE DecodeFrom(_, _, _)
\* decodeURIComponent of s from index i on, out the text decoded so far: a
\* "%" must be followed by two hexadecimal digits, else URIError is thrown.
DecodeFrom(s, i, out) ==
  LET k == IndexFrom(s, "%", i)
  IN IF k = 0 THEN out \o SubSeq(s, i, Len(s))
     ELSE IF k + 2 > Len(s) \/ s[k + 1] \notin HexDigits \/ s[k + 2] \notin HexDigits
          THEN URIError
     ELSE DecodeFrom(s, k + 3,
            out \o SubSeq(s, i, k - 1) \o <<Unescape(s[k + 1], s[k + 2])>>)

decodeURIComponent(s) == DecodeFrom(s, 1, << >>)

(* ------------------------------ tags ---------------------------------- *)
tSleep         == <<"S","l","e","e","p">>
tAnxiety       == <<"A","n","x","i","e","t","y">>
tStress        == <<"S","t","r","e","s","s">>
tBodywork      == <<"B","o","d","y","w","o","r","k">>
tAdaptThrive   == <<"A","d","a","p","t"," ","&"," ","T","h","r","i","v","e">>
tCancer        == <<"C","a","n","c","e","r">>
tCancerSupport == <<"C","a","n","c","e","r"," ","S","u","p","p","o","r","t">>
tBreastCancer  == <<"B","r","e","a","s","t"," ","C","a","n","c","e","r">>
tOncology      == <<"O","n","c","o","l","o","g","y">>
tChemotherapy  == <<"C","h","e","m","o","t","h","e","r","a","p","y">>
tRadiation     == <<"R","a","d","i","a","t","i","o","n">>
tMood          == <<"M","o","o","d">>
tBrain         == <<"B","r","a","i","n">>
tGifts         == <<"G","i","f","t","s">>

tProbiotics    == <<"P","r","o","b","i","o","t","i","c","s">>
tPhBalance     == <<"p","H"," ","B","a","l","a","n","c","e">>
tZincLiquid    == <<"Z","i","n","c"," ","(","L","i","q","u","i","d",")">>

(* --------------------------- the registry ----------------------------- *)
VARIABLES
  tagsFile,      \* what require('./tags_unique.json') finds
  proc,          \* the process: "boot", "up" or "crashed"
  allowedTags,   \* the allow-list, an ordered sequence of tags
  pc,            \* the POST /chat handler: "idle", "awaiting" or "done"
  inbound,       \* the messages of the request
  preferred,     \* the preferred tag of the turn
  upstream,      \* the call of the generator: how often, and how it ended
  stages,        \* the reply after each step of the handler
  response,      \* what the handler sent back
  sessions,      \* the session store: clientId -> the messages remembered
  reqs           \* the requests that carry a clientId, each with its own locals

vars == <<tagsFile, proc, allowedTags, pc, inbound, preferred, upstream, stages, response,
          sessions, reqs>>

\* new Set(allowedTags)
allowedTagsSet == {allowedTags[i] : i \in 1..Len(allowedTags)}

\* new Map(allowedTags.map(t => [t.toLowerCase(), t])).get(k): the last
\* entry of a key wins.
allowedTagsLowerMap(k) ==
  LET hits == {i \in 1..Len(allowedTags) : toLowerCase(allowedTags[i]) = k}
  IN IF hits = {} THEN None
     ELSE allowedTags[CHOOSE i \in hits : \A j \in hits : j <= i]

SERVICE_TAG_BLOCKLIST ==
  {tCancer, tCancerSupport, tBreastCancer, tOncology, tChemotherapy, tRadiation}

RECURSIVE FirstAllowed(_)
FirstAllowed(prefs) ==
  IF prefs = << >> THEN None
  ELSE IF Head(prefs) \in allowedTagsSet THEN Head(prefs)
  ELSE FirstAllowed(Tail(prefs))

FallbackPrefs == <<tStress, tSleep, tAnxiety, tBodywork, tAdaptThrive>>

\* A faulty variant: the first preference, whether or not the allow-list has it.
serviceFallbackForUnchecked == Head(FallbackPrefs)

serviceFallbackFor == FirstAllowed(FallbackPrefs)

(* --------------------------- link builders ---------------------------- *)
U_SERVICES == "https://shop.healthandlight.com/collections/services"
U_SUPPS    == "https://shop.healthandlight.com/collections/nutritional-supplements"
U_ALL      == "https://shop.healthandlight.com/collections/all"
QS         == "?filter.p.tag="
U_BLOG     == "https://shop.healthandlight.com/blogs/news/tagged/"

\* The tag parameter of a query string when it is not its first parameter.
AND_TAG    == "&filter.p.tag="

makeServicesLink(t) == <<U_SERVICES, QS>> \o encodeURIComponent(t)
makeSuppsLink(t)    == <<U_SUPPS, QS>> \o encodeURIComponent(t)
makeAllLink(t)      == <<U_ALL, QS>> \o encodeURIComponent(t)

RECURSIVE ReplaceChar(_, _, _)
\* s.replace(/c/g, by) for a one-character pattern.
ReplaceChar(s, c, by) ==
  IF s = << >> THEN << >>
  ELSE (IF Head(s) = c THEN by ELSE <<Head(s)>>) \o ReplaceChar(Tail(s), c, by)

RECURSIVE CollapseRuns(_, _, _)
\* s.replace(/X+/g, by), X the characters of cls.
CollapseRuns(s, cls, by) ==
  IF s = << >> THEN << >>
  ELSE IF Head(s) \in cls
       THEN IF Len(s) > 1 /\ s[2] \in cls THEN CollapseRuns(Tail(s), cls, by)
            ELSE by \o CollapseRuns(Tail(s), cls, by)
       ELSE <<Head(s)>> \o CollapseRuns(Tail(s), cls, by)

slugifyTagForBlog(tag) ==
  LET s1 == toLowerCase(tag)
      s2 == ReplaceChar(s1, "&", <<"a","n","d">>)
      s3 == SelectSeq(s2, LAMBDA c : c \in LowerLetters \/ c \in Digits
                                       \/ IsSpace(c) \/ c = "-")
      s4 == trim(s3)
      s5 == CollapseRuns(s4, {" ", "\n", "\t"}, <<"-">>)
  IN CollapseRuns(s5, {"-"}, <<"-">>)

makeArticlesLink(t) == <<U_BLOG>> \o slugifyTagForBlog(t)

(* ------------------------------ helpers ------------------------------- *)
normalizeTag(nameRaw) ==
  IF nameRaw = None THEN None
  ELSE LET d == decodeURIComponent(nameRaw)
       IN IF d = URIError THEN URIError
          ELSE allowedTagsLowerMap(toLowerCase(trim(d)))

(* ----------------------- fuzzy tag extractor --------------------------- *)
RegexSpecials == {".", "*", "+", "?", "^", "$", "{", "}", "(", ")", "|", "[", "]", "\\"}

\* s.replace(/[.*+?^${}()|[\]\\]/g, '\\$&'): a backslash before each of the
\* characters of the class; "&" and "-" are not in the class.
escapeRegex(s) ==
  Flatten([i \in 1..Len(s) |->
             IF s[i] \in RegexSpecials THEN <<"\\", s[i]>> ELSE <<s[i]>>])

\* The pattern text that stands for "&" or "and", and for an optional "-" or " ".
AmpOrAnd    == "(?:&|and)"
HyphenOrGap == "[- ]?"

RECURSIVE ReplaceEscaped(_, _, _)
\* pat.replace(/\\c/g, by): every backslash followed by c.
ReplaceEscaped(pat, c, by) ==
  IF pat = << >> THEN << >>
  ELSE IF Len(pat) >= 2 /\ pat[1] = "\\" /\ pat[2] = c
       THEN <<by>> \o ReplaceEscaped(SubSeq(pat, 3, Len(pat)), c, by)
       ELSE <<Head(pat)>> \o ReplaceEscaped(Tail(pat), c, by)

\* The pattern extractTagsFrom builds for the tag raw.
TagPattern(raw) ==
  ReplaceEscaped(ReplaceEscaped(escapeRegex(raw), "&", AmpOrAnd), "-", HyphenOrGap)

\* Whether the literal lit is at index i of text, letter case ignored.
LitAt(text, i, lit) ==
  /\ i + Len(lit) - 1 <= Len(text)
  /\ \A k \in 1..Len(lit) : toLowerChar(text[i + k - 1]) = toLowerChar(lit[k])

RECURSIVE PatEnds(_, _, _, _)
\* The indexes after the matches of pat[k..] that start at index i of text
\* (flag i: letter case is ignored).
PatEnds(text, i, pat, k) ==
  IF k > Len(pat) THEN {i}
  ELSE IF pat[k] = AmpOrAnd
       THEN (IF LitAt(text, i, <<"&">>) THEN PatEnds(text, i + 1, pat, k + 1) ELSE {})
            \cup (IF LitAt(text, i, <<"a","n","d">>)
                  THEN PatEnds(text, i + 3, pat, k + 1) ELSE {})
  ELSE IF pat[k] = HyphenOrGap
       THEN (IF i <= Len(text) /\ text[i] \in {"-", " "}
             THEN PatEnds(text, i + 1, pat, k + 1) ELSE {})
            \cup PatEnds(text, i, pat, k + 1)
  ELSE IF pat[k] = "\\"
       THEN IF k < Len(pat) /\ LitAt(text, i, <<pat[k + 1]>>)
            THEN PatEnds(text, i + 1, pat, k + 2) ELSE {}
  ELSE IF LitAt(text, i, <<pat[k]>>) THEN PatEnds(text, i + 1, pat, k + 1) ELSE {}

\* new RegExp(`(?:^|[^\\w])${pat}(?=[^\\w]|$)`, 'i').test(text)
TagRegexTest(pat, text) ==
  \E q \in 1..(Len(text) + 1) :
    /\ q = 1 \/ ~IsWord(text[q - 1])
    /\ \E e \in PatEnds(text, q, pat, 1) : e > Len(text) \/ ~IsWord(text[e])

RECURSIVE Dedup(_)
\* [...new Set(xs)]: the first occurrence of each element, in order.
Dedup(xs) ==
  IF xs = << >> THEN << >>
  ELSE LET front == Dedup(SubSeq(xs, 1, Len(xs) - 1))
           last  == xs[Len(xs)]
       IN IF \E i \in 1..Len(front) : front[i] = last THEN front
          ELSE Append(front, last)

extractTagsFrom(text) ==
  IF text = None \/ Len(allowedTags) = 0 THEN << >>
  ELSE Dedup(SelectSeq(allowedTags,
                       LAMBDA raw : \E pat \in {TagPattern(raw)} : TagRegexTest(pat, text)))

(* -------------------------- intent resolver --------------------------- *)
\* \s* inside a keyword.
WsStar == "\\s*"

RECURSIVE KwEnd(_, _, _, _)
\* The index after the match of kw[k..] at index i of text, or 0.
KwEnd(text, i, kw, k) ==
  IF k > Len(kw) THEN i
  ELSE IF kw[k] = WsStar THEN KwEnd(text, SkipSpaces(text, i), kw, k + 1)
  ELSE IF LitAt(text, i, <<kw[k]>>) THEN KwEnd(text, i + 1, kw, k + 1)
  ELSE 0

\* \b at index i of text: between a word and a non-word character.
WordBoundary(text, i) ==
  (i >= 2 /\ i - 1 <= Len(text) /\ IsWord(text[i - 1]))
    # (i >= 1 /\ i <= Len(text) /\ IsWord(text[i]))

\* /\b(kw1|kw2|...)\b/i.test(text)
KeywordTest(kws, text) ==
  \E kw \in kws : \E i \in 1..Len(text) :
    /\ WordBoundary(text, i)
    /\ KwEnd(text, i, kw, 1) # 0
    /\ WordBoundary(text, KwEnd(text, i, kw, 1))

CancerKeywords ==
  {<<"b","r","e","a","s","t", WsStar, "c","a","n","c","e","r">>, <<"c","a","n","c","e","r">>,
   <<"o","n","c","o","l","o","g","y">>, <<"o","n","c","o","l","o","g","i","s","t">>, <<"c","h","e","m","o","t","h","e","r","a","p","y">>, <<"r","a","d","i","a","t","i","o","n">>}

hasCancerSupportTag == tCancerSupport \in allowedTagsSet

KEYWORD_TO_TAG == <<
  [re |-> {<<"i","n","s","o","m","n","i","a">>, <<"t","r","o","u","b","l","e"," ","s","l","e","e","p","i","n","g">>, <<"s","l","e","e","p"," ","i","s","s","u","e","s">>, <<"s","l","e","e","p"," ","p","r","o","b","l","e","m","s">>,
           <<"c","a","n","'","t"," ","s","l","e","e","p">>, <<"c","a","n","t"," ","s","l","e","e","p">>, <<"s","l","e","e","p","i","n","g">>},
   tag |-> tSleep],
  [re |-> {<<"a","n","x","i","e","t","y">>, <<"a","n","x","i","o","u","s">>, <<"p","a","n","i","c">>, <<"p","a","n","i","c","s">>, <<"p","a","n","i","c"," ","a","t","t","a","c","k">>,
           <<"p","a","n","i","c"," ","a","t","t","a","c","k","s">>},
   tag |-> tAnxiety],
  [re |-> {<<"s","t","r","e","s","s">>, <<"s","t","r","e","s","s","e","d">>, <<"o","v","e","r","w","h","e","l","m">>, <<"o","v","e","r","w","h","e","l","m","e","d">>},
   tag |-> tStress],
  [re |-> {<<"b","r","a","i","n"," ","f","o","g">>, <<"f","o","c","u","s">>, <<"c","o","n","c","e","n","t","r","a","t","i","o","n">>, <<"m","e","m","o","r","y">>},
   tag |-> tBrain],
  [re |-> {<<"m","o","o","d">>, <<"l","o","w"," ","m","o","o","d">>, <<"i","r","r","i","t","a","b","l","e">>, <<"i","r","r","i","t","a","b","i","l","i","t","y">>},
   tag |-> tMood],
  [re |-> CancerKeywords,
   tag |-> IF hasCancerSupportTag THEN tCancerSupport ELSE tCancer] >>

RECURSIVE FirstRule(_, _)
FirstRule(rules, txt) ==
  IF rules = << >> THEN None
  ELSE IF KeywordTest(Head(rules).re, txt) THEN Head(rules).tag
  ELSE FirstRule(Tail(rules), txt)

inferTagFromFreeText(txt) == IF txt = None THEN None ELSE FirstRule(KEYWORD_TO_TAG, txt)

(* ------------------------ placeholder resolver ------------------------ *)
L_SERVICES == "Supportive Services ("
L_SUPPS    == "Explore Supplements ("
L_ARTICLES == "Read Articles ("

PlaceholderTypes ==
  <<<<"S","E","R","V","I","C","E","S","_","T","A","G">>, <<"S","U","P","P","L","E","M","E","N","T","S","_","T","A","G">>, <<"A","R","T","I","C","L","E","S","_","T","A","G">>>>

NoMatch == [ok |-> FALSE]

\* The match of /\[(SERVICES_TAG|SUPPLEMENTS_TAG|ARTICLES_TAG):\s*([^\]]+)\]/i
\* that starts at index i of s: its type (upper-cased), its tag name and the
\* index after it.
PlaceholderAt(s, i) ==
  IF s[i] # "[" THEN NoMatch
  ELSE LET types == {t \in 1..3 : LitAt(s, i + 1, PlaceholderTypes[t])}
       IN IF types = {} THEN NoMatch
          ELSE LET t  == CHOOSE x \in types : TRUE
                   j  == i + 1 + Len(PlaceholderTypes[t])
                   k  == IndexFrom(s, "]", j + 1)
                   ws == SkipSpaces(s, j + 1)
               IN IF j > Len(s) \/ s[j] # ":" \/ k < j + 2 THEN NoMatch
                  ELSE [ok |-> TRUE, type |-> PlaceholderTypes[t],
                        name |-> SubSeq(s, IF ws >= k THEN k - 1 ELSE ws, k - 1),
                        start |-> i, end |-> k + 1]

ServicesLinkText(tag) ==
  <<"[", L_SERVICES>> \o tag \o <<")", "]", "(">> \o makeServicesLink(tag) \o <<")">>
SuppsLinkText(tag) ==
  <<"[", L_SUPPS>> \o tag \o <<")", "]", "(">> \o makeSuppsLink(tag) \o <<")">>
ArticlesLinkText(tag) ==
  <<"[", L_ARTICLES>> \o tag \o <<")", "]", "(">> \o makeArticlesLink(tag) \o <<")">>

\* The tag a services link gets for the resolved tag: a blocklisted tag
\* pivots to the fallback.
ServiceTagFor(tag) ==
  IF tag \in SERVICE_TAG_BLOCKLIST THEN serviceFallbackFor ELSE tag

\* A faulty variant: the preferred tag first, the placeholder's name second.
ResolveTagPreferredFirst(tagName, preferredTag) ==
  OrElse(normalizeTag(preferredTag), normalizeTag(tagName))

\* normalizeTag(tagName) || normalizeTag(preferredTag)
ResolveTag(tagName, preferredTag) ==
  OrElse(normalizeTag(tagName), normalizeTag(preferredTag))

\* A faulty variant: an invalid placeholder is left in the text.
PlaceholderReplacementKeep(m, preferredTag) ==
  LET tag == ResolveTag(m.name, preferredTag)
  IN IF tag = URIError THEN URIError
     ELSE IF tag = None THEN <<"[">> \o m.type \o <<":">> \o m.name \o <<"]">>
     ELSE IF m.type = PlaceholderTypes[1]
          THEN IF ServiceTagFor(tag) = None THEN << >>
               ELSE ServicesLinkText(ServiceTagFor(tag))
     ELSE IF m.type = PlaceholderTypes[2] THEN SuppsLinkText(tag)
     ELSE ArticlesLinkText(tag)

\* The callback of convertPlaceholders: what the match m is replaced by.
PlaceholderReplacement(m, preferredTag) ==
  LET tag == ResolveTag(m.name, preferredTag)
  IN IF tag = URIError THEN URIError
     ELSE IF tag = None THEN << >>
     ELSE IF m.type = PlaceholderTypes[1]
          THEN IF ServiceTagFor(tag) = None THEN << >>
               ELSE ServicesLinkText(ServiceTagFor(tag))
     ELSE IF m.type = PlaceholderTypes[2] THEN SuppsLinkText(tag)
     ELSE ArticlesLinkText(tag)

RECURSIVE ConvertFrom(_, _, _, _)
\* reply.replace(/.../gi, callback) from index i on, out the text built so
\* far: the next match is replaced by what the callback returns, and a
\* callback that throws ends the replace.
ConvertFrom(s, i, preferredTag, out) ==
  LET k == FirstOr({x \in i..Len(s) : PlaceholderAt(s, x).ok}, 0)
      m == PlaceholderAt(s, k)
      r == PlaceholderReplacement(m, preferredTag)
  IN IF k = 0 THEN out \o SubSeq(s, i, Len(s))
     ELSE IF r = URIError THEN URIError
     ELSE ConvertFrom(s, m.end, preferredTag, out \o SubSeq(s, i, k - 1) \o r)

convertPlaceholders(reply, preferredTag) ==
  IF reply = None THEN reply ELSE ConvertFrom(reply, 1, preferredTag, << >>)

(* --------------------------- link sanitizer --------------------------- *)
\* The index after the longest run, from index i of s, of symbols not in stop.
RunEnd(s, i, stop) == FirstOr({k \in i..Len(s) : s[k] \in stop}, EndFrom(s, i))

\* The index after the longest run of the symbol c from index i of s.
RunOf(s, i, c) == FirstOr({k \in i..Len(s) : s[k] # c}, EndFrom(s, i))

\* [^\s)\]]
LinkStop == {" ", "\n", "\t", ")", "]"}

\* The callback of the collections pass of sanitizeLinks.
CollectionReplacement(coll, raw, preferredTag) ==
  LET tag == ResolveTag(raw, preferredTag)
  IN IF tag = URIError THEN URIError
     ELSE IF tag = None THEN <<coll>>
     ELSE IF coll = U_SERVICES
          THEN IF ServiceTagFor(tag) = None THEN <<coll>>
               ELSE makeServicesLink(ServiceTagFor(tag))
     ELSE IF coll = U_SUPPS THEN makeSuppsLink(tag)
     ELSE makeAllLink(tag)

\* Whether /(base)(services|nutritional-supplements|all)(\?filter\.p\.tag=)([^\s)\]]+)/i
\* matches at index i of s.
CollectionLinkAt(s, i) ==
  /\ s[i] \in {U_SERVICES, U_SUPPS, U_ALL}
  /\ i + 1 <= Len(s) /\ s[i + 1] = QS
  /\ RunEnd(s, i + 2, LinkStop) > i + 2

\* The raw tag of the collection link at index i of s: ([^\s)\]]+)
RawTagAt(s, i) == SubSeq(s, i + 2, RunEnd(s, i + 2, LinkStop) - 1)

RECURSIVE SanitizeCollectionsFrom(_, _, _, _)
SanitizeCollectionsFrom(s, i, preferredTag, out) ==
  LET k == FirstOr({x \in i..Len(s) : CollectionLinkAt(s, x)}, 0)
      r == CollectionReplacement(s[k], RawTagAt(s, k), preferredTag)
  IN IF k = 0 THEN out \o SubSeq(s, i, Len(s))
     ELSE IF r = URIError THEN URIError
     ELSE SanitizeCollectionsFrom(s, RunEnd(s, k + 2, LinkStop), preferredTag,
                                  out \o SubSeq(s, i, k - 1) \o r)

RECURSIVE ReplaceAnd(_)
\* s.replace(/and/g, '&')
ReplaceAnd(s) ==
  IF s = << >> THEN << >>
  ELSE IF Len(s) >= 3 /\ SubSeq(s, 1, 3) = <<"a","n","d">>
       THEN <<"&">> \o ReplaceAnd(SubSeq(s, 4, Len(s)))
       ELSE <<Head(s)>> \o ReplaceAnd(Tail(s))

\* The callback of the blog pass of sanitizeLinks.
BlogReplacement(slug, preferredTag) ==
  LET guess == ReplaceAnd(ReplaceChar(slug, "-", <<" ">>))
      tag   == OrElse(normalizeTag(guess),
                      OrElse(normalizeTag(slug), normalizeTag(preferredTag)))
  IN IF tag = URIError THEN URIError
     ELSE IF tag = None THEN <<U_BLOG>> \o <<"w","e","l","l","n","e","s","s">>
     ELSE <<U_BLOG>> \o slugifyTagForBlog(tag)

\* Whether /(base)([^\s)\]]]+)/i matches at index i of s: the slug is one
\* character that is neither whitespace, ")" nor "]", followed by one or
\* more "]".
BlogLinkAt(s, i) ==
  /\ s[i] = U_BLOG
  /\ i + 2 <= Len(s) /\ s[i + 1] \notin LinkStop /\ s[i + 2] = "]"

RECURSIVE SanitizeBlogFrom(_, _, _, _)
SanitizeBlogFrom(s, i, preferredTag, out) ==
  LET k == FirstOr({x \in i..Len(s) : BlogLinkAt(s, x)}, 0)
      e == RunOf(s, k + 2, "]")
      r == BlogReplacement(SubSeq(s, k + 1, e - 1), preferredTag)
  IN IF k = 0 THEN out \o SubSeq(s, i, Len(s))
     ELSE IF r = URIError THEN URIError
     ELSE SanitizeBlogFrom(s, e, preferredTag, out \o SubSeq(s, i, k - 1) \o r)


sanitizeLinks(reply, preferredTag) ==
  IF reply = None THEN reply
  ELSE The({IF r1 = URIError THEN URIError
            ELSE SanitizeBlogFrom(r1, 1, preferredTag, << >>) :
              r1 \in {SanitizeCollectionsFrom(reply, 1, preferredTag, << >>)}})

(* --------------------------- section enforcer ------------------------- *)
\* The index after the match, at index i of s, of
\* /\[[^\]]+\]\(\s*URL\?[^)]+\)/i (a collection: needsQuery) or of
\* /\[[^\]]+\]\(\s*URL[^)]+\)/i (the blog), or 0.
MdLinkEnd(s, i, url, needsQuery) ==
  IF s[i] # "[" THEN 0
  ELSE LET k == IndexFrom(s, "]", i + 1)
           u == SkipSpaces(s, k + 2)
           v == u + 1
       IN IF k < i + 2 \/ k + 1 > Len(s) \/ s[k + 1] # "(" THEN 0
          ELSE IF u > Len(s) \/ s[u] # url THEN 0
          ELSE IF ~needsQuery
               THEN LET e == IndexFrom(s, ")", v)
                    IN IF e >= v + 1 THEN e + 1 ELSE 0
          ELSE IF v > Len(s) THEN 0
          ELSE IF s[v] = QS
               THEN LET e == IndexFrom(s, ")", v + 1)
                    IN IF e > 0 THEN e + 1 ELSE 0
          ELSE IF s[v] = "?"
               THEN LET e == IndexFrom(s, ")", v + 1)
                    IN IF e >= v + 2 THEN e + 1 ELSE 0
          ELSE 0

RECURSIVE RemoveMdLinksFrom(_, _, _, _, _)
\* s.replace(/.../gi, '') from index i on, out the text built so far.
RemoveMdLinksFrom(s, i, url, needsQuery, out) ==
  LET k == FirstOr({x \in i..Len(s) : MdLinkEnd(s, x, url, needsQuery) # 0}, 0)
  IN IF k = 0 THEN out \o SubSeq(s, i, Len(s))
     ELSE RemoveMdLinksFrom(s, MdLinkEnd(s, k, url, needsQuery), url, needsQuery,
                            out \o SubSeq(s, i, k - 1))

rmServicesLinks(s) == RemoveMdLinksFrom(s, 1, U_SERVICES, TRUE, << >>)
rmSuppLinks(s)     == RemoveMdLinksFrom(s, 1, U_SUPPS, TRUE, << >>)
rmArticleLinks(s)  == RemoveMdLinksFrom(s, 1, U_BLOG, FALSE, << >>)

Sections == {"services", "supplements", "articles"}

\* The index after the section's name at index q of s, or 0:
\* Services, Nutritional\s+Supplements, Articles (flag i).
SectionNameEnd(s, q, sec) ==
  IF sec = "services"
  THEN IF LitAt(s, q, <<"S","e","r","v","i","c","e","s">>) THEN q + 8 ELSE 0
  ELSE IF sec = "articles"
  THEN IF LitAt(s, q, <<"A","r","t","i","c","l","e","s">>) THEN q + 8 ELSE 0
  ELSE IF /\ LitAt(s, q, <<"N","u","t","r","i","t","i","o","n","a","l">>)
          /\ SkipSpaces(s, q + 11) > q + 11
          /\ LitAt(s, SkipSpaces(s, q + 11), <<"S","u","p","p","l","e","m","e","n","t","s">>)
       THEN SkipSpaces(s, q + 11) + 11 ELSE 0

\* The index after the match of
\*   (\*\*)?\s*NAME\s*\2?\s*:?[^\n]*\n?
\* at index q of s (q is just after the ^ or the \n the match starts with),
\* or 0.  Every quantifier is greedy and nothing after NAME is required.
HeadingEnd(s, q, sec) ==
  LET bold == LitAt(s, q, <<"*","*">>)
      q3   == SkipSpaces(s, IF bold THEN q + 2 ELSE q)
      r    == SectionNameEnd(s, q3, sec)
      r1   == SkipSpaces(s, r)
      r2   == IF bold /\ LitAt(s, r1, <<"*","*">>) THEN r1 + 2 ELSE r1
      r3   == SkipSpaces(s, r2)
      r4   == IF r3 <= Len(s) /\ s[r3] = ":" THEN r3 + 1 ELSE r3
      r5   == RunEnd(s, r4, {"\n"})
  IN IF r = 0 THEN 0
     ELSE IF r5 <= Len(s) /\ s[r5] = "\n" THEN r5 + 1 ELSE r5

\* The first match of the section's heading regex in s: the match is
\* s[start..end-1].
HeadingMatch(s, sec) ==
  The({IF starts = {} THEN NoMatch
       ELSE The({[ok |-> TRUE, start |-> p0,
                  end |-> IF p0 = 1 /\ HeadingEnd(s, 1, sec) # 0
                          THEN HeadingEnd(s, 1, sec) ELSE HeadingEnd(s, p0 + 1, sec)] :
                    p0 \in {Min(starts)}}) :
         starts \in {{p \in 1..Len(s) :
                        \/ p = 1 /\ HeadingEnd(s, 1, sec) # 0
                        \/ s[p] = "\n" /\ HeadingEnd(s, p + 1, sec) # 0}}})

\* A faulty variant: a text without the heading gets the line at its end.
InjectAfterHeadingOrAtEnd(s, sec, line) ==
  The({IF ~m.ok THEN s \o line
       ELSE SubSeq(s, 1, m.end - 1) \o <<"\n">>
              \o (IF line # << >> THEN line \o <<"\n">> ELSE << >>)
              \o SubSeq(s, m.end, Len(s)) :
         m \in {HeadingMatch(s, sec)}})

\* reply.replace(sectionRegex, m => line ? `${m}\n${line}\n` : `${m}\n`)
InjectAfterHeading(s, sec, line) ==
  The({IF ~m.ok THEN s
       ELSE SubSeq(s, 1, m.end - 1) \o <<"\n">>
              \o (IF line # << >> THEN line \o <<"\n">> ELSE << >>)
              \o SubSeq(s, m.end, Len(s)) :
         m \in {HeadingMatch(s, sec)}})

RECURSIVE TidyFrom(_, _, _)
\* reply.replace(/\n{3,}/g, '\n\n') from index i on.
TidyFrom(s, i, out) ==
  LET k == FirstOr({x \in i..Len(s) : RunOf(s, x, "\n") - x >= 3}, 0)
  IN IF k = 0 THEN out \o SubSeq(s, i, Len(s))
     ELSE TidyFrom(s, RunOf(s, k, "\n"), out \o SubSeq(s, i, k - 1) \o <<"\n", "\n">>)

\* A faulty variant: the Services section has the base tag, as the others.
SectionServiceTagNoFallback(baseTag) == baseTag

\* The tag of the Services section: the base tag, or the fallback when
\* there is none or it is blocklisted.
SectionServiceTag(baseTag) ==
  IF baseTag = None \/ baseTag \in SERVICE_TAG_BLOCKLIST
  THEN serviceFallbackFor ELSE baseTag

BulletLine(linkText) == <<"-", " ">> \o linkText

ensureSectionsHaveOneLink(reply, preferredTag) ==
  IF reply = None THEN reply
  ELSE LET baseTag    == normalizeTag(preferredTag)
           serviceTag == SectionServiceTag(baseTag)
           serviceLine == IF serviceTag # None
                          THEN BulletLine(ServicesLinkText(serviceTag)) ELSE << >>
           suppLine    == IF baseTag # None
                          THEN BulletLine(SuppsLinkText(baseTag)) ELSE << >>
           articleLine == IF baseTag # None
                          THEN BulletLine(ArticlesLinkText(baseTag)) ELSE << >>
       IN IF baseTag = URIError THEN URIError
          ELSE The({TidyFrom(a3, 1, << >>) :
                 a3 \in {InjectAfterHeading(r3, "articles", l3) :
                   r3 \in {rmArticleLinks(a2) :
                     a2 \in {InjectAfterHeading(r2, "supplements", l2) :
                       r2 \in {rmSuppLinks(a1) :
                         a1 \in {InjectAfterHeading(r1, "services", l1) :
                           r1 \in {rmServicesLinks(reply)}, l1 \in {serviceLine}}},
                       l2 \in {suppLine}}},
                   l3 \in {articleLine}}})

(* ------------------------ related-tag expander ------------------------ *)
TAG_DENYLIST_FOOTER ==
  {<<"S","e","r","v","i","c","e","s">>,
   <<"S","u","p","p","l","e","m","e","n","t","s">>,
   <<"G","i","f","t","s">>,
   <<"G","i","f","t"," ","C","a","r","d","s">>,
   <<"G","i","f","t","s"," ","F","o","r"," ","H","e","r">>,
   <<"G","i","f","t","s"," ","f","o","r"," ","H","e","r">>,
   <<"C","l","o","t","h","i","n","g">>,
   <<"T","-","s","h","i","r","t","s">>,
   <<"U","n","i","s","e","x">>,
   <<"J","e","w","e","l","r","y">>,
   <<"H","o","m","e"," ","D","e","c","o","r">>,
   <<"W","a","l","l"," ","T","a","p","e","s","t","r","i","e","s">>,
   <<"N","o","t","e","b","o","o","k","s","/","J","o","u","r","n","a","l","s">>,
   <<"R","e","c","o","r","d","e","d"," ","M","e","d","i","t","a","t","i","o","n","s">>,
   <<"P","e","r","s","o","n","a","l"," ","C","a","r","e">>}

KEYWORD_TAG_GRAPH == <<
  [tag |-> <<"A","n","x","i","e","t","y">>,
   rel |-> <<<<"S","t","r","e","s","s">>,
           <<"S","l","e","e","p">>,
           <<"M","o","o","d">>,
           <<"M","a","g","n","e","s","i","u","m">>,
           <<"B","r","a","i","n">>,
           <<"A","d","a","p","t"," ","&"," ","T","h","r","i","v","e">>>>],
  [tag |-> <<"S","l","e","e","p">>,
   rel |-> <<<<"A","n","x","i","e","t","y">>,
           <<"S","t","r","e","s","s">>,
           <<"M","a","g","n","e","s","i","u","m">>,
           <<"M","o","o","d">>>>],
  [tag |-> <<"S","t","r","e","s","s">>,
   rel |-> <<<<"A","n","x","i","e","t","y">>,
           <<"S","l","e","e","p">>,
           <<"A","d","a","p","t"," ","&"," ","T","h","r","i","v","e">>,
           <<"M","a","g","n","e","s","i","u","m">>,
           <<"M","o","o","d">>>>],
  [tag |-> <<"D","i","g","e","s","t","i","o","n">>,
   rel |-> <<<<"G","u","t"," ","H","e","a","l","t","h">>,
           <<"P","r","o","b","i","o","t","i","c","s">>,
           <<"E","n","z","y","m","e","s">>,
           <<"L","e","a","k","y"," ","G","u","t">>>>],
  [tag |-> <<"B","r","a","i","n">>,
   rel |-> <<<<"M","e","m","o","r","y"," ","&"," ","F","o","c","u","s">>,
           <<"M","o","o","d">>,
           <<"O","m","e","g","a","-","3","s">>>>],
  [tag |-> <<"I","m","m","u","n","e"," ","S","u","p","p","o","r","t">>,
   rel |-> <<<<"A","n","t","i","o","x","i","d","a","n","t","s">>>>],
  [tag |-> <<"D","e","t","o","x">>,
   rel |-> <<<<"H","e","a","v","y"," ","M","e","t","a","l"," ","D","e","t","o","x">>,
           <<"L","i","v","e","r">>,
           <<"K","i","d","n","e","y","s">>>>] >>

\* KEYWORD_TAG_GRAPH[t] || []
RelatedOf(t) ==
  LET hits == {i \in 1..Len(KEYWORD_TAG_GRAPH) : KEYWORD_TAG_GRAPH[i].tag = t}
  IN IF hits = {} THEN << >> ELSE KEYWORD_TAG_GRAPH[CHOOSE i \in hits : TRUE].rel

\* xs.slice(0, n)
Take(xs, n) == SubSeq(xs, 1, IF Len(xs) < n THEN Len(xs) ELSE n)

\* A faulty variant: every tag may be shown in the footer.
FooterOkAny(t) == TRUE

\* allowedTagsSet.has(t) && !TAG_DENYLIST_FOOTER.has(t)
FooterOk(t) == t \in allowedTagsSet /\ t \notin TAG_DENYLIST_FOOTER

expandRelatedTags(tags, limit) ==
  Take(Dedup(SelectSeq(Flatten([i \in 1..Len(tags) |-> RelatedOf(tags[i])]), FooterOk)),
       limit)

(* ------------------------------- atoms -------------------------------- *)
FOOTER_HEAD == "**Shop by category:**"
WATSU_HEAD  == "**Featured Service:**"
WATSU_LABEL == "Watsu (Aquatic Bodywork)"
WATSU_URL   == "https://shop.healthandlight.com/products/aquatic-bodywork-watsu-waterdance"

\* The characters of each atom.
AtomText ==
  (U_SERVICES :> <<"h","t","t","p","s",":","/","/","s","h","o","p",".","h","e","a","l","t","h","a","n","d","l","i","g","h","t",".","c","o","m","/","c","o","l","l","e","c","t","i","o","n","s","/","s","e","r","v","i","c","e","s">>) @@
  (U_SUPPS :> <<"h","t","t","p","s",":","/","/","s","h","o","p",".","h","e","a","l","t","h","a","n","d","l","i","g","h","t",".","c","o","m","/","c","o","l","l","e","c","t","i","o","n","s","/","n","u","t","r","i","t","i","o","n","a","l","-","s","u","p","p","l","e","m","e","n","t","s">>) @@
  (U_ALL :> <<"h","t","t","p","s",":","/","/","s","h","o","p",".","h","e","a","l","t","h","a","n","d","l","i","g","h","t",".","c","o","m","/","c","o","l","l","e","c","t","i","o","n","s","/","a","l","l">>) @@
  (QS :> <<"?","f","i","l","t","e","r",".","p",".","t","a","g","=">>) @@
  (AND_TAG :> <<"&","f","i","l","t","e","r",".","p",".","t","a","g","=">>) @@
  (U_BLOG :> <<"h","t","t","p","s",":","/","/","s","h","o","p",".","h","e","a","l","t","h","a","n","d","l","i","g","h","t",".","c","o","m","/","b","l","o","g","s","/","n","e","w","s","/","t","a","g","g","e","d","/">>) @@
  (L_SERVICES :> <<"S","u","p","p","o","r","t","i","v","e"," ","S","e","r","v","i","c","e","s"," ","(">>) @@
  (L_SUPPS :> <<"E","x","p","l","o","r","e"," ","S","u","p","p","l","e","m","e","n","t","s"," ","(">>) @@
  (L_ARTICLES :> <<"R","e","a","d"," ","A","r","t","i","c","l","e","s"," ","(">>) @@
  (FOOTER_HEAD :> <<"*","*","S","h","o","p"," ","b","y"," ","c","a","t","e","g","o","r","y",":","*","*">>) @@
  (WATSU_HEAD :> <<"*","*","F","e","a","t","u","r","e","d"," ","S","e","r","v","i","c","e",":","*","*">>) @@
  (WATSU_LABEL :> <<"W","a","t","s","u"," ","(","A","q","u","a","t","i","c"," ","B","o","d","y","w","o","r","k",")">>) @@
  (WATSU_URL :> <<"h","t","t","p","s",":","/","/","s","h","o","p",".","h","e","a","l","t","h","a","n","d","l","i","g","h","t",".","c","o","m","/","p","r","o","d","u","c","t","s","/","a","q","u","a","t","i","c","-","b","o","d","y","w","o","r","k","-","w","a","t","s","u","-","w","a","t","e","r","d","a","n","c","e">>)

\* The text s character by character.
Expand(s) ==
  Flatten([i \in 1..Len(s) |->
             IF s[i] \in DOMAIN AtomText THEN AtomText[s[i]] ELSE <<s[i]>>])

(* ------------------------------- Watsu -------------------------------- *)
\* /kw1|kw2|.../i.test(text)
ContainsAny(kws, text) ==
  \E kw \in kws : \E i \in 1..Len(text) : KwEnd(text, i, kw, 1) # 0

WatsuKeywords ==
  {<<"w","a","t","s","u">>, <<"a","q","u","a","t","i","c"," ","b","o","d","y","w","o","r","k">>,
   <<"w","a","t","e","r", WsStar, "s","h","i","a","t","s","u">>, <<"w","a","t","e","r","d","a","n","c","e">>}

\* The index after the match, at index i of s, of
\* /(?:we|i)\s+do(?:\s*not|n't)?\s+offer\s+watsu[^.?!]*[.?!]?/i, or 0.
WatsuDenialEnd(s, i) ==
  LET p1 == IF LitAt(s, i, <<"w","e">>) THEN i + 2
            ELSE IF LitAt(s, i, <<"i">>) THEN i + 1 ELSE 0
      p2 == SkipSpaces(s, p1)
      p3 == p2 + 2
      p4 == IF LitAt(s, SkipSpaces(s, p3), <<"n","o","t">>) THEN SkipSpaces(s, p3) + 3
            ELSE IF LitAt(s, p3, <<"n","'","t">>) THEN p3 + 3 ELSE p3
      p5 == SkipSpaces(s, p4)
      p6 == SkipSpaces(s, p5 + 5)
      p7 == RunEnd(s, p6 + 5, {".", "?", "!"})
  IN IF p1 = 0 \/ p2 = p1 \/ ~LitAt(s, p2, <<"d","o">>) THEN 0
     ELSE IF p5 = p4 \/ ~LitAt(s, p5, <<"o","f","f","e","r">>) THEN 0
     ELSE IF p6 = p5 + 5 \/ ~LitAt(s, p6, <<"w","a","t","s","u">>) THEN 0
     ELSE IF p7 <= Len(s) THEN p7 + 1 ELSE p7

RECURSIVE RemoveWatsuDenialsFrom(_, _, _)
RemoveWatsuDenialsFrom(s, i, out) ==
  LET k == FirstOr({x \in i..Len(s) : WatsuDenialEnd(s, x) # 0}, 0)
  IN IF k = 0 THEN out \o SubSeq(s, i, Len(s))
     ELSE RemoveWatsuDenialsFrom(s, WatsuDenialEnd(s, k), out \o SubSeq(s, i, k - 1))

\* /\bhttps?:\/\/\S+aquatic-bodywork-watsu-waterdance/i.test(text)
HasWatsuLink(text) ==
  \E i \in 1..Len(text) :
    /\ WordBoundary(text, i)
    /\ \E a \in {i + 7, i + 8} :
         /\ LitAt(text, i, IF a = i + 7 THEN <<"h","t","t","p",":","/","/">> ELSE <<"h","t","t","p","s",":","/","/">>)
         /\ \E j \in (a + 1)..Len(text) :
              /\ LitAt(text, j, <<"a","q","u","a","t","i","c","-","b","o","d","y","w","o","r","k","-","w","a","t","s","u","-","w","a","t","e","r","d","a","n","c","e">>)
              /\ \A k \in a..(j - 1) : ~IsSpace(text[k])

WatsuBlock ==
  <<"\n", "\n", WATSU_HEAD, "\n", "-", " ", "[", WATSU_LABEL, "]", "(", WATSU_URL, ")">>

\* The Watsu step of the handler.
ApplyWatsu(lastUserMsg, reply) ==
  IF \A text \in {lastUserMsg \o <<"\n">> \o Expand(reply)} :
       ~ContainsAny(WatsuKeywords, text)
  THEN reply
  ELSE The({IF \E text \in {Expand(r)} : HasWatsuLink(text) THEN r
            ELSE r \o WatsuBlock :
              r \in {RemoveWatsuDenialsFrom(reply, 1, << >>)}})

(* ------------------------------- footer ------------------------------- *)
\* The characters in the order of the root collation: whitespace,
\* punctuation, symbols, digits, letters.
CollationOrder ==
  <<" ", "_", "-", ",", ";", ":", "!", "?", ".", "'", "\"", "(", ")", "[", "]",
    "{", "}", "@", "*", "/", "\\", "&", "#", "%", "+", "<", "=", ">", "|", "~", "$",
    "0", "1", "2", "3", "4", "5", "6", "7", "8", "9",
    "a", "b", "c", "d", "e", "f", "g", "h", "i", "j", "k", "l", "m",
    "n", "o", "p", "q", "r", "s", "t", "u", "v", "w", "x", "y", "z">>

CollationRank(c) ==
  LET hits == {i \in 1..Len(CollationOrder) : CollationOrder[i] = toLowerChar(c)}
  IN IF hits = {} THEN 0 ELSE CHOOSE i \in hits : TRUE

\* Whether the sequence of numbers ka is before kb, lexicographically.
LexLess(ka, kb) ==
  \E i \in 1..(Len(kb)) :
    /\ \A j \in 1..(i - 1) : j <= Len(ka) /\ ka[j] = kb[j]
    /\ i > Len(ka) \/ ka[i] < kb[i]

\* a.localeCompare(b) < 0: the letters first, letter case ignored, then
\* lower case before upper case.
LocaleLess(a, b) ==
  LET ka == [i \in 1..Len(a) |-> CollationRank(a[i])]
      kb == [i \in 1..Len(b) |-> CollationRank(b[i])]
      ca == [i \in 1..Len(a) |-> IF a[i] \in DOMAIN LowerTable THEN 1 ELSE 0]
      cb == [i \in 1..Len(b) |-> IF b[i] \in DOMAIN LowerTable THEN 1 ELSE 0]
  IN LexLess(ka, kb) \/ (ka = kb /\ LexLess(ca, cb))

\* A faulty variant: the list is left in the order it was built in.
SortTagsNone(tags) == tags

\* The characters of the texts in the order of their code units.
CodeUnitOrder ==
  <<" ", "!", "\"", "#", "$", "%", "&", "'", "(", ")", "*", "+", ",", "-", ".", "/",
    "0", "1", "2", "3", "4", "5", "6", "7", "8", "9", ":", ";", "<", "=", ">", "?", "@",
    "A", "B", "C", "D", "E", "F", "G", "H", "I", "J", "K", "L", "M",
    "N", "O", "P", "Q", "R", "S", "T", "U", "V", "W", "X", "Y", "Z",
    "[", "\\", "]", "^", "_",
    "a", "b", "c", "d", "e", "f", "g", "h", "i", "j", "k", "l", "m",
    "n", "o", "p", "q", "r", "s", "t", "u", "v", "w", "x", "y", "z",
    "{", "|", "}", "~">>

CodeUnitRank(c) ==
  LET hits == {i \in 1..Len(CodeUnitOrder) : CodeUnitOrder[i] = c}
  IN IF hits = {} THEN 0 ELSE CHOOSE i \in hits : TRUE

\* Whether a is before b in the lexicographic order of the code units.
CodeUnitLess(a, b) ==
  LexLess([i \in 1..Len(a) |-> CodeUnitRank(a[i])],
          [i \in 1..Len(b) |-> CodeUnitRank(b[i])])

\* A faulty variant: the list is sorted by the code units of the tags.
SortTagsByCodeUnit(tags) ==
  LET elems == {tags[i] : i \in 1..Len(tags)}
  IN [i \in 1..Len(tags) |->
        CHOOSE t \in elems : Cardinality({u \in elems : CodeUnitLess(u, t)}) = i - 1]

\* tags.sort((a, b) => a.localeCompare(b)), the tags pairwise distinct.
SortTags(tags) ==
  LET elems == {tags[i] : i \in 1..Len(tags)}
  IN [i \in 1..Len(tags) |->
        CHOOSE t \in elems : Cardinality({u \in elems : LocaleLess(u, t)}) = i - 1]

FooterLine(t) == <<"-", " ", "[">> \o t \o <<"]", "(">> \o makeAllLink(t) \o <<")">>

\* A faulty variant: the tags the reply mentions come before the preferred
\* tag and the tags of the user's messages.
FooterTagsReplyFirst(preferredTag, userTextAll, reply) ==
  The({Take(SelectSeq(Dedup(second), FooterOk), 8) :
         second \in {IF Len(first) = 0
                     THEN IF preferredTag # None
                          THEN <<preferredTag>> \o expandRelatedTags(<<preferredTag>>, 6)
                          ELSE Take(extractTagsFrom(userTextAll), 4)
                     ELSE first :
                       first \in {The({extractTagsFrom(text) : text \in {Expand(reply)}})}}})

\* The tags of the footer: the footer step of the handler up to the sort.
FooterTags(preferredTag, userTextAll, reply) ==
  The({Take(SelectSeq(Dedup(second), FooterOk), 8) :
         second \in {IF Len(first) = 0
                     THEN The({extractTagsFrom(text) : text \in {Expand(reply)}})
                     ELSE first :
                       first \in {IF preferredTag # None
                                  THEN <<preferredTag>>
                                         \o expandRelatedTags(<<preferredTag>>, 6)
                                  ELSE Take(extractTagsFrom(userTextAll), 4)}}})

\* The text the footer step appends to the reply.
FooterBlock(tags) ==
  IF Len(tags) = 0 THEN << >>
  ELSE <<"\n", "\n", FOOTER_HEAD>>
         \o The({Flatten([i \in 1..Len(sorted) |-> <<"\n">> \o FooterLine(sorted[i])]) :
                   sorted \in {SortTags(tags)}})

(* ------------------------------ inputs -------------------------------- *)
\* An element of tags_unique.json that is not a string.
NonString == <<"#non-string">>

\* What require('./tags_unique.json') finds: no file, JSON that is not an
\* array, or an array.
TagsFiles ==
  {[kind |-> "missing", value |-> << >>],
   [kind |-> "object",  value |-> << >>],
   [kind |-> "array",   value |-> <<tSleep, NonString>>],
   [kind |-> "array",   value |-> <<tSleep, tAnxiety, tStress>>],
   [kind |-> "array",   value |-> <<tAdaptThrive, tAnxiety, tCancerSupport>>],
   [kind |-> "array",   value |-> <<tCancerSupport, tGifts>>],
   [kind |-> "array",   value |-> <<tSleep, tAnxiety, tStress, tMood, tBrain>>],
   [kind |-> "array",   value |-> <<tZincLiquid>>]}

\* The latest user messages of the requests.
Messages ==
  {<<"I"," ","c","a","n","'","t"," ","s","l","e","e","p",","," ","f","e","e","l","i","n","g"," ","r","e","a","l","l","y"," ","a","n","x","i","o","u","s">>,
   <<"I"," ","h","a","v","e"," ","A","d","a","p","t","-","a","n","d","-","T","h","r","i","v","e"," ","i","s","s","u","e","s">>,
   <<"I"," ","h","a","v","e"," ","a","d","a","p","t"," ","&"," ","t","h","r","i","v","e"," ","i","s","s","u","e","s">>,
   <<"S","l","e","e","p","y","h","e","a","d">>,
   <<"m","y"," ","m","o","m"," ","h","a","s"," ","b","r","e","a","s","t"," ","c","a","n","c","e","r">>,
   <<"g","i","f","t","s"," ","a","s","i","d","e",","," ","s","t","r","e","s","s"," ","m","a","k","e","s"," ","m","e"," ","a","n","x","i","o","u","s">>,
   <<"d","o"," ","y","o","u"," ","o","f","f","e","r"," ","w","a","t","e","r"," ","s","h","i","a","t","s","u">>}

\* The conversations of the requests: none, a first message, and a
\* message that follows an earlier exchange.
Inbounds ==
  {<< >>} \cup {<<[role |-> "user", content |-> m]>> : m \in Messages}
          \cup {<<[role |-> "user", content |-> <<"s","l","e","e","p",","," ","a","n","x","i","e","t","y",","," ","s","t","r","e","s","s",","," ","m","o","o","d"," ","a","n","d"," ","b","r","a","i","n">>],
                  [role |-> "assistant", content |-> <<"o","k">>],
                  [role |-> "user", content |-> <<"S","l","e","e","p","y","h","e","a","d">>]>>}

H_SERVICES == <<"*","*","S","e","r","v","i","c","e","s",":","*","*">>
H_SUPPS    == <<"*","*","N","u","t","r","i","t","i","o","n","a","l"," ","S","u","p","p","l","e","m","e","n","t","s",":","*","*">>
H_ARTICLES == <<"*","*","A","r","t","i","c","l","e","s",":","*","*">>

Headings == {<< >>, H_SERVICES, H_SUPPS, H_ARTICLES}

\* What the generator may write on a line after the heading.
Items ==
  {<<" ","t","e","x","t">>,
   <<" ","[","S","E","R","V","I","C","E","S","_","T","A","G",":"," ","S","l","e","e","p","]">>,
   <<" ","[","S","E","R","V","I","C","E","S","_","T","A","G",":"," ","C","a","n","c","e","r"," ","S","u","p","p","o","r","t","]">>,
   <<" ","[","S","E","R","V","I","C","E","S","_","T","A","G",":"," ","N","o","t","-","A","-","R","e","a","l","-","T","a","g","]">>,
   <<" ","[","s","u","p","p","l","e","m","e","n","t","s","_","t","a","g",":"," ","a","n","x","i","e","t","y","]">>,
   <<" ","[","S","U","P","P","L","E","M","E","N","T","S","_","T","A","G",":"," ","N","o","t","-","A","-","R","e","a","l","-","T","a","g","]">>,
   <<" ","[","A","R","T","I","C","L","E","S","_","T","A","G",":"," ","N","o","t","-","A","-","R","e","a","l","-","T","a","g","]">>,
   <<" ","[","A","R","T","I","C","L","E","S","_","T","A","G",":"," ","A","d","a","p","t"," ","&"," ","T","h","r","i","v","e","]">>,
   <<" ","[","S","e","r","v","i","c","e","s","T","a","g",":"," ","N","o","t","-","A","-","R","e","a","l","-","T","a","g","]">>,
   <<" ","[","S","E","R","V","I","C","E","S","_","T","A","G",":"," ","1","0","0","%","]">>,
   <<" ","[","S","U","P","P","L","E","M","E","N","T","S","_","T","A","G",":"," ","b","r","e","a","s","t"," ","c","a","n","c","e","r","]">>,
   <<" ","[","S","U","P","P","L","E","M","E","N","T","S","_","T","A","G",":"," ","z","i","n","c"," ","(","l","i","q","u","i","d",")","]">>,
   <<" ","w","e"," ","d","o","n","'","t"," ","o","f","f","e","r"," ","w","a","t","s","u",".">>,
   <<" ","t","r","y"," ","h","t","t","p",":","/","/","x",".","c","o","/","a","q","u","a","t","i","c","-","b","o","d","y","w","o","r","k","-","w","a","t","s","u","-","w","a","t","e","r","d","a","n","c","e">>,
   <<" ", WATSU_URL>>,
   <<" ", U_SERVICES, QS>> \o <<"C","a","n","c","e","r","%","2","0","S","u","p","p","o","r","t">>,
   <<" ", U_SERVICES, QS>> \o <<"s","l","e","e","p">>,
   <<" ", U_SERVICES>> \o <<"?","s","o","r","t","_","b","y","=","m","a","n","u","a","l">> \o <<AND_TAG>> \o <<"C","a","n","c","e","r">>,
   <<" ", "[", "x", "]", "(", U_SERVICES, QS>> \o <<"S","t","r","e","s","s",")">>,
   <<" ", "[", "x", "]", "(", U_SUPPS, QS>> \o <<"B","o","g","u","s",")">>,
   <<" ", U_ALL, QS>> \o <<"A","n","x","i","e","t","y">>,
   <<" ", U_SUPPS, QS>> \o <<"5","0","%">>,
   <<" ", U_BLOG>> \o <<"s","l","e","e","p">>}


\* The lines the generator may write after the first one.
FollowLines ==
  {H_SUPPS \o <<" ","[","S","U","P","P","L","E","M","E","N","T","S","_","T","A","G",":"," ","A","n","x","i","e","t","y","]","\n">>,
   H_SUPPS \o <<" ", "[", "x", "]", "(", U_SUPPS, QS>> \o <<"B","o","g","u","s",")","\n">>,
   H_SERVICES \o <<" ","t","e","x","t","\n">>,
   H_ARTICLES \o <<" ","t","e","x","t","\n">>,
   <<"m","o","r","e"," ","t","e","x","t","\n">>,
   <<U_SERVICES, QS>> \o <<"s","l","e","e","p","\n">>}

RECURSIVE LineSeqs(_)
LineSeqs(n) ==
  IF n = 0 THEN {<< >>}
  ELSE IF n = 1 THEN {<< >>} \cup {h \o i \o <<"\n">> : h \in Headings, i \in Items}
  ELSE LineSeqs(n - 1) \cup
       {ls \o l : ls \in LineSeqs(n - 1) \ {<< >>}, l \in FollowLines}

\* What the generator may return as the content of its reply.
Replies == LineSeqs(MaxLines)

(* ----------------------------- the handler ---------------------------- *)
\* [...inbound].reverse().find(m => m.role === 'user')?.content || ''
LastUserMsg(msgs) ==
  LET users == {i \in 1..Len(msgs) : msgs[i].role = "user"}
  IN IF users = {} THEN None ELSE msgs[Max(users)].content

\* inbound.filter(m => m.role === 'user').map(m => m.content).join('\n\n')
UserTextAll(msgs) ==
  LET users == SelectSeq(msgs, LAMBDA m : m.role = "user")
  IN Flatten([i \in 1..Len(users) |->
                IF i = 1 THEN users[i].content ELSE <<"\n", "\n">> \o users[i].content])

\* A faulty variant: the keyword rules are consulted before the extractor.
PreferredTagOfRulesFirst(lastUserMsg) ==
  The({IF inferTagFromFreeText(lastUserMsg) # None
       THEN inferTagFromFreeText(lastUserMsg)
       ELSE IF Len(tags) > 0 THEN tags[1] ELSE None :
         tags \in {extractTagsFrom(lastUserMsg)}})

\* extractTagsFrom(lastUserMsg)[0] || inferTagFromFreeText(lastUserMsg)
PreferredTagOf(lastUserMsg) ==
  The({IF Len(tags) > 0 /\ tags[1] # None THEN tags[1]
       ELSE inferTagFromFreeText(lastUserMsg) :
         tags \in {extractTagsFrom(lastUserMsg)}})

NoStages == [gen |-> None, watsu |-> None, converted |-> None, sanitized |-> None,
             enforced |-> None, footer |-> << >>, final |-> None]
\* The call of the generator of one request: how many times it was made
\* and how it ended.
NoCall == [calls |-> 0, outcome |-> "none"]

NoResponse == [status |-> 0, reply |-> None]

(* ------------------------- the session store ------------------------- *)
\* How many requests with a clientId are followed.
MaxRequests == 2

RequestIds == 1..MaxRequests

MAX_TURNS == 30

\* const sessions = new Map(): the field `updated` is written and never read.
NoSessions == [c \in {} |-> [messages |-> << >>]]

\* A request that has not come yet. A request remembers how many requests
\* had been answered when it came, and as which it was answered.
NoRequests ==
  [r \in RequestIds |->
     [pc |-> "new", clientId |-> None, inbound |-> << >>, content |-> None,
      reply |-> None, status |-> 0, arrived |-> 0, order |-> 0]]

getSessionMessages(clientId) ==
  IF clientId = None THEN << >>
  ELSE IF clientId \in DOMAIN sessions THEN sessions[clientId].messages ELSE << >>

\* msgs.slice(-n)
SliceLast(msgs, n) == SubSeq(msgs, Max({1, Len(msgs) - n + 1}), Len(msgs))

\* A faulty variant: the whole history is remembered.
setSessionMessagesAll(clientId, msgs) ==
  IF clientId = None THEN sessions
  ELSE [c \in DOMAIN sessions \cup {clientId} |->
          IF c = clientId THEN [messages |-> msgs] ELSE sessions[c]]

\* The session store after setSessionMessages(clientId, msgs).
setSessionMessages(clientId, msgs) ==
  IF clientId = None THEN sessions
  ELSE [c \in DOMAIN sessions \cup {clientId} |->
          IF c = clientId THEN [messages |-> SliceLast(msgs, MAX_TURNS)]
          ELSE sessions[c]]

\* [...inbound.filter(m => m.role !== 'system'), { role: 'assistant', content: reply }]
NewHistory(msgs, reply) ==
  SelectSeq(msgs, LAMBDA m : m.role # "system")
    \o <<[role |-> "assistant", content |-> reply]>>

\* The text the handler returns for the messages msgs when the generator
\* returns content, or URIError: lines 368-427.
HandlerReply(msgs, content) ==
  The({The({IF enforced = URIError THEN URIError
            ELSE enforced \o FooterBlock(FooterTags(p, UserTextAll(msgs), enforced)) :
              enforced \in {IF sanitized = URIError THEN URIError
                            ELSE ensureSectionsHaveOneLink(sanitized, p) :
                sanitized \in {IF converted = URIError THEN URIError
                               ELSE sanitizeLinks(converted, p) :
                  converted \in {convertPlaceholders(w, p) :
                    w \in {ApplyWatsu(LastUserMsg(msgs), content)}}}}}) :
         p \in {PreferredTagOf(LastUserMsg(msgs))}})

\* The allow-list of the process that serves the requests with a clientId.
SessionTagsFiles ==
  {[kind |-> "array", value |-> <<tSleep, tProbiotics, tPhBalance>>]}

ClientIds == {<<"a">>, <<"b">>}

\* A conversation of n messages: a system message, then user and assistant
\* messages in turn, each with its number as its content.
Conversation(n) ==
  LET DigitChars == <<"0","1","2","3","4","5","6","7","8","9">>
  IN
  [i \in 1..n |->
     [role |-> IF i = 1 THEN "system" ELSE IF i % 2 = 0 THEN "user" ELSE "assistant",
      content |-> <<"q", DigitChars[(i \div 10) + 1], DigitChars[(i % 10) + 1]>>]]

\* req.body.messages of the requests with a clientId: none, a first message,
\* and conversations of one message less than, and of as many messages as,
\* what no longer fits the session with the reply.
SessionBodies ==
  {<< >>, Conversation(2), Conversation(MAX_TURNS), Conversation(MAX_TURNS + 1)}

\* What the generator returns to the requests with a clientId.
SessionReplies ==
  {None,
   <<"o","k">>,
   <<"t","r","y"," ","P","r","o","b","i","o","t","i","c","s"," ","o","r"," ","p","H"," ","B","a","l","a","n","c","e">>,
   <<"[","S","E","R","V","I","C","E","S","_","T","A","G",":"," ","1","0","0","%","]">>}

Init ==
  /\ tagsFile \in TagsFiles
  /\ proc = "boot"
  /\ allowedTags = << >>
  /\ pc = "idle"
  /\ inbound = << >>
  /\ preferred = None
  /\ upstream = NoCall
  /\ stages = NoStages
  /\ response = NoResponse
  /\ sessions = NoSessions
  /\ reqs = NoRequests

\* The start of the process: the allow-list is required and the set and
\* the lower-case map are built from it.
LoadTags ==
  /\ proc = "boot"
  /\ IF tagsFile.kind # "array"
     THEN allowedTags' = << >> /\ proc' = "up"
     ELSE /\ allowedTags' = tagsFile.value
          /\ proc' = IF \E i \in 1..Len(tagsFile.value) : tagsFile.value[i] = NonString
                     THEN "crashed" ELSE "up"
  /\ UNCHANGED <<sessions, reqs, tagsFile, pc, inbound, preferred, upstream, stages, response>>

\* POST /chat up to the awaited call of the generator. The requests of
\* this specification send their messages and no clientId, so that the
\* session store is neither read (line 363) nor written (line 431); the
\* requests with a clientId are those of SessionSpec.
ChatRequest ==
  /\ proc = "up" /\ pc = "idle"
  /\ \E msgs \in Inbounds :
       /\ inbound' = msgs
       /\ \E lastUserMsg \in {LastUserMsg(msgs)} :
            preferred' = PreferredTagOf(lastUserMsg)
  /\ pc' = "awaiting"
  /\ upstream' = [calls |-> upstream.calls + 1, outcome |-> "pending"]
  /\ stages' = NoStages
  /\ response' = NoResponse
  /\ UNCHANGED <<sessions, reqs, tagsFile, proc, allowedTags>>

\* A faulty variant of the handler: the section enforcer runs before the
\* link sanitizer.
ChatCompleteEnforcerFirst ==
  /\ pc = "awaiting"
  /\ \E content \in Replies :
     \E lastUserMsg \in {LastUserMsg(inbound)}, userTextAll \in {UserTextAll(inbound)} :
     \E watsu \in {ApplyWatsu(lastUserMsg, content)} :
     \E converted \in {convertPlaceholders(watsu, preferred)} :
     \E sanitized \in {IF converted = URIError THEN URIError
                        ELSE ensureSectionsHaveOneLink(converted, preferred)} :
     \E enforced \in {IF sanitized = URIError THEN URIError
                       ELSE sanitizeLinks(sanitized, preferred)} :
     \E footer \in {IF enforced = URIError THEN << >>
                     ELSE FooterTags(preferred, userTextAll, enforced)} :
     \E final \in {IF enforced = URIError THEN URIError
                    ELSE enforced \o FooterBlock(footer)} :
       /\ stages' = [gen |-> content, watsu |-> watsu, converted |-> converted,
                     sanitized |-> sanitized, enforced |-> enforced,
                     footer |-> footer, final |-> final]
       /\ response' = IF final = URIError
                      THEN [status |-> 500, reply |-> None]
                      ELSE [status |-> 200, reply |-> final]
       /\ upstream' = [upstream EXCEPT !.outcome =
                         IF content = None THEN "empty" ELSE "content"]
  /\ pc' = "done"
  /\ UNCHANGED <<sessions, reqs, tagsFile, proc, allowedTags, inbound, preferred>>

\* The generator returns and the handler post-processes its content and
\* answers: each step gets the text the step before it left, and a step
\* that throws leaves URIError to every step after it.
ChatComplete ==
  /\ pc = "awaiting"
  /\ \E content \in Replies :
     \E lastUserMsg \in {LastUserMsg(inbound)}, userTextAll \in {UserTextAll(inbound)} :
     \E watsu \in {ApplyWatsu(lastUserMsg, content)} :
     \E converted \in {convertPlaceholders(watsu, preferred)} :
     \E sanitized \in {IF converted = URIError THEN URIError
                        ELSE sanitizeLinks(converted, preferred)} :
     \E enforced \in {IF sanitized = URIError THEN URIError
                       ELSE ensureSectionsHaveOneLink(sanitized, preferred)} :
     \E footer \in {IF enforced = URIError THEN << >>
                     ELSE FooterTags(preferred, userTextAll, enforced)} :
     \E final \in {IF enforced = URIError THEN URIError
                    ELSE enforced \o FooterBlock(footer)} :
       /\ stages' = [gen |-> content, watsu |-> watsu, converted |-> converted,
                     sanitized |-> sanitized, enforced |-> enforced,
                     footer |-> footer, final |-> final]
       /\ response' = IF final = URIError
                      THEN [status |-> 500, reply |-> None]
                      ELSE [status |-> 200, reply |-> final]
       /\ upstream' = [upstream EXCEPT !.outcome =
                         IF content = None THEN "empty" ELSE "content"]
  /\ pc' = "done"
  /\ UNCHANGED <<sessions, reqs, tagsFile, proc, allowedTags, inbound, preferred>>

\* The call of the generator throws: the catch block answers.
ChatGeneratorThrows ==
  /\ pc = "awaiting"
  /\ response' = [status |-> 500, reply |-> None]
  /\ upstream' = [upstream EXCEPT !.outcome = "threw"]
  /\ pc' = "done"
  /\ UNCHANGED <<sessions, reqs, tagsFile, proc, allowedTags, inbound, preferred, stages>>

\* The handler has returned; the next request may come.
ChatReturn ==
  /\ pc = "done"
  /\ pc' = "idle"
  /\ inbound' = << >>
  /\ preferred' = None
  /\ upstream' = NoCall
  /\ stages' = NoStages
  /\ response' = NoResponse
  /\ UNCHANGED <<sessions, reqs, tagsFile, proc, allowedTags>>

Next == LoadTags \/ ChatRequest \/ ChatComplete \/ ChatGeneratorThrows \/ ChatReturn

Spec == Init /\ [][Next]_vars

(* ------------------- the requests with a clientId --------------------- *)
SessionInit ==
  /\ tagsFile \in SessionTagsFiles
  /\ proc = "boot"
  /\ allowedTags = << >>
  /\ pc = "idle"
  /\ inbound = << >>
  /\ preferred = None
  /\ upstream = NoCall
  /\ stages = NoStages
  /\ response = NoResponse
  /\ sessions = NoSessions
  /\ reqs = NoRequests

\* How many requests the handler has answered.
Answered == Cardinality({q \in RequestIds : reqs[q].pc = "done"})

\* POST /chat of the request r up to the awaited call of the generator: the
\* messages of the body, or those of the session when the body has none.
SessionChatRequest(r) ==
  /\ proc = "up" /\ reqs[r].pc = "new"
  /\ \E clientId \in ClientIds \cup {None}, body \in SessionBodies :
       reqs' = [reqs EXCEPT ![r].pc = "awaiting",
                            ![r].arrived = Answered,
                            ![r].clientId = clientId,
                            ![r].inbound = IF body = << >> /\ clientId # None
                                           THEN getSessionMessages(clientId)
                                           ELSE body]
  /\ UNCHANGED <<sessions, tagsFile, proc, allowedTags, pc, inbound, preferred,
                 upstream, stages, response>>

\* A faulty variant: the history is remembered before the post-processing
\* has ended, with the content of the generator when a step throws.
SessionChatCompleteWriteFirst(r) ==
  /\ reqs[r].pc = "awaiting"
  /\ \E content \in SessionReplies :
     \E reply \in {HandlerReply(reqs[r].inbound, content)} :
       /\ sessions' = setSessionMessages(reqs[r].clientId,
                         NewHistory(reqs[r].inbound,
                                    IF reply = URIError THEN content ELSE reply))
       /\ reqs' = [reqs EXCEPT ![r].pc = "done", ![r].content = content,
                               ![r].reply = IF reply = URIError THEN None ELSE reply,
                               ![r].status = IF reply = URIError THEN 500 ELSE 200,
                               ![r].order = Answered + 1]
  /\ UNCHANGED <<tagsFile, proc, allowedTags, pc, inbound, preferred,
                 upstream, stages, response>>

\* The generator returns to the request r: the handler post-processes the
\* content, remembers the history under the clientId and answers; a step
\* of the post-processing that throws takes the handler to its catch block.
SessionChatComplete(r) ==
  /\ reqs[r].pc = "awaiting"
  /\ \E content \in SessionReplies :
     \E reply \in {HandlerReply(reqs[r].inbound, content)} :
       IF reply = URIError
       THEN /\ reqs' = [reqs EXCEPT ![r].pc = "done", ![r].content = content,
                                    ![r].status = 500, ![r].order = Answered + 1]
            /\ UNCHANGED sessions
       ELSE /\ sessions' = setSessionMessages(reqs[r].clientId,
                                               NewHistory(reqs[r].inbound, reply))
            /\ reqs' = [reqs EXCEPT ![r].pc = "done", ![r].content = content,
                                    ![r].reply = reply, ![r].status = 200,
                                    ![r].order = Answered + 1]
  /\ UNCHANGED <<tagsFile, proc, allowedTags, pc, inbound, preferred,
                 upstream, stages, response>>

\* The call of the generator of the request r throws: the catch block answers.
SessionChatThrows(r) ==
  /\ reqs[r].pc = "awaiting"
  /\ reqs' = [reqs EXCEPT ![r].pc = "done", ![r].status = 500,
                          ![r].order = Answered + 1]
  /\ UNCHANGED <<sessions, tagsFile, proc, allowedTags, pc, inbound, preferred,
                 upstream, stages, response>>

SessionNext ==
  \/ LoadTags
  \/ \E r \in RequestIds : SessionChatRequest(r)
  \/ \E r \in RequestIds : SessionChatComplete(r)
  \/ \E r \in RequestIds : SessionChatThrows(r)

SessionSpec == SessionInit /\ [][SessionNext]_vars

(* ------------------------------ properties ---------------------------- *)
\* The handler answered with a reply.
Replied == pc = "done" /\ response.status = 200

\* Whether the symbols of lit are in s, one after the other.
Contains(s, lit) ==
  \E i \in 1..(Len(s) - Len(lit) + 1) : SubSeq(s, i, i + Len(lit) - 1) = lit

\* The placeholder tokens of the text s.
Tokens(s) == {PlaceholderAt(s, i) : i \in {x \in 1..Len(s) : PlaceholderAt(s, x).ok}}

RECURSIVE SpliceFrom(_, _, _)
\* The text s from index i on, with each of the ranges [r.start, r.end) of
\* reps replaced by r.by.
SpliceFrom(s, i, reps) ==
  LET rest == {r \in reps : r.start >= i}
      r0   == CHOOSE r \in rest : \A q \in rest : r.start <= q.start
  IN IF rest = {} THEN SubSeq(s, i, Len(s))
     ELSE SubSeq(s, i, r0.start - 1) \o r0.by \o SpliceFrom(s, r0.end, reps)

\* The indexes of s where a link to the collection coll starts.
LinksTo(s, coll) == {i \in 1..Len(s) : s[i] = coll}

\* The tag the link at index i of s carries in its query string, or None.
TagOfLink(s, i) ==
  LET e  == RunEnd(s, i + 1, LinkStop)
      ps == {j \in (i + 1)..(e - 1) : s[j] \in {QS, AND_TAG}}
      p  == Min(ps)
  IN IF ps = {} THEN None
     ELSE decodeURIComponent(SubSeq(s, p + 1, RunEnd(s, p + 1, LinkStop \cup {"&"}) - 1))

\* C1: every services, supplements or all-collection link of the returned
\* text that carries a tag carries a tag of the allow-list.
C1_AllowListSoundness ==
  Replied =>
    \A coll \in {U_SERVICES, U_SUPPS, U_ALL} :
      \A i \in LinksTo(response.reply, coll) :
        TagOfLink(response.reply, i) # None
          => TagOfLink(response.reply, i) \in allowedTagsSet

\* C2: no services link of the returned text carries a tag of the service
\* blocklist.
C2_NoBlocklistedServicesLink ==
  Replied =>
    \A i \in LinksTo(response.reply, U_SERVICES) :
      TagOfLink(response.reply, i) \notin SERVICE_TAG_BLOCKLIST

\* C3: running the section enforcer on its own output changes nothing.
C3_EnforcerIdempotent ==
  (pc = "done" /\ stages.enforced # URIError) =>
    ensureSectionsHaveOneLink(stages.enforced, preferred) = stages.enforced

\* The collection of each section.
SectionCollection(sec) ==
  IF sec = "services" THEN U_SERVICES
  ELSE IF sec = "supplements" THEN U_SUPPS ELSE U_BLOG

\* The last index of the section sec of s: the index before the next
\* section's heading, or the end of s.
SectionStop(s, sec) ==
  LET nexts == {HeadingMatch(s, o).start : o \in {x \in Sections \ {sec} :
                   /\ HeadingMatch(s, x).ok
                   /\ HeadingMatch(s, x).start > HeadingMatch(s, sec).start}}
  IN IF nexts = {} THEN Len(s) ELSE Min(nexts)

\* The links of the section sec of s to the section's own collection.
OwnLinks(s, sec) ==
  {i \in LinksTo(s, SectionCollection(sec)) :
     HeadingMatch(s, sec).start <= i /\ i <= SectionStop(s, sec)}

\* C4: each section of the returned text has at most one link to its own
\* collection.
C4_OneLinkPerSection ==
  Replied =>
    \A sec \in Sections :
      HeadingMatch(response.reply, sec).ok
        => Cardinality(OwnLinks(response.reply, sec)) <= 1

\* The tags of the shop-by-category links of s, in the order of the text.
FooterLinkTags(s) ==
  LET at == LinksTo(s, U_ALL)
  IN [n \in 1..Cardinality(at) |->
        TagOfLink(s, CHOOSE i \in at : Cardinality({j \in at : j <= i}) = n)]

\* The end-to-end scenario: the reply has a Services section with one
\* placeholder that names the allow-listed tag A, the preferred tag, and a
\* Nutritional Supplements section with one placeholder that names another
\* allow-listed tag B, and no other placeholder or link.
C5_Scenario(A, B) ==
  /\ Replied /\ A # B /\ preferred = A
  /\ A \in allowedTagsSet /\ B \in allowedTagsSet
  /\ HeadingMatch(stages.gen, "services").ok
  /\ HeadingMatch(stages.gen, "supplements").ok
  /\ Cardinality(Tokens(stages.gen)) = 2
  /\ \E m \in Tokens(stages.gen) : m.type = PlaceholderTypes[1] /\ m.name = A
  /\ \E m \in Tokens(stages.gen) : m.type = PlaceholderTypes[2] /\ m.name = B
  /\ \A coll \in {U_SERVICES, U_SUPPS, U_ALL, U_BLOG} : LinksTo(stages.gen, coll) = {}

\* Exactly one link to coll in s, and it carries the tag t.
OneLinkTagged(s, coll, t) ==
  /\ Cardinality(LinksTo(s, coll)) = 1
  /\ \A i \in LinksTo(s, coll) : TagOfLink(s, i) = t

\* The footer of s has the tag A and is sorted.
SortedFooterWith(s, A) ==
  /\ Contains(s, <<FOOTER_HEAD>>)
  /\ \E n \in 1..Len(FooterLinkTags(s)) : FooterLinkTags(s)[n] = A
  /\ \A n \in 1..(Len(FooterLinkTags(s)) - 1) :
       LocaleLess(FooterLinkTags(s)[n], FooterLinkTags(s)[n + 1])

C6_ExtractorTolerant ==
  pc = "awaiting" =>
    /\ (/\ tAdaptThrive \in allowedTagsSet
        /\ LastUserMsg(inbound) = <<"I"," ","h","a","v","e"," ","A","d","a","p","t","-","a","n","d","-","T","h","r","i","v","e"," ","i","s","s","u","e","s">>)
         => extractTagsFrom(LastUserMsg(inbound)) = <<tAdaptThrive>>
    /\ (/\ tSleep \in allowedTagsSet
        /\ LastUserMsg(inbound) = <<"S","l","e","e","p","y","h","e","a","d">>)
         => extractTagsFrom(LastUserMsg(inbound)) = << >>

\* A placeholder written the way the specification writes it.
SpecFormToken == <<"[","S","e","r","v","i","c","e","s","T","a","g",":"," ","N","o","t","-","A","-","R","e","a","l","-","T","a","g","]">>

C7_Case ==
  /\ pc = "done" /\ preferred = None
  /\ \A m \in Tokens(stages.watsu) :
       decodeURIComponent(m.name) # URIError /\ normalizeTag(m.name) = None

C8_Order == <<tStress, tSleep, tAnxiety, tBodywork, tAdaptThrive>>
C8_Fallback ==
  LET ok == {i \in 1..Len(C8_Order) : C8_Order[i] \in allowedTagsSet}
  IN IF ok = {} THEN None ELSE C8_Order[Min(ok)]

\* The placeholder resolver ran on a text whose tokens are all services
\* tokens that resolve to a blocklisted tag.
C8_Case ==
  /\ pc = "done" /\ stages.converted # URIError
  /\ Tokens(stages.watsu) # {}
  /\ \A m \in Tokens(stages.watsu) :
       /\ m.type = PlaceholderTypes[1]
       /\ ResolveTag(m.name, preferred) \in SERVICE_TAG_BLOCKLIST

\* C8: a services placeholder that resolves to a blocklisted tag becomes a
\* services link to the first tag of the fallback order that the allow-list
\* has, and is deleted when the allow-list has none of them.
C8_BlocklistFallback ==
  C8_Case =>
    stages.converted =
      SpliceFrom(stages.watsu, 1,
                 {[start |-> m.start, end |-> m.end,
                   by |-> IF C8_Fallback = None THEN << >>
                          ELSE ServicesLinkText(C8_Fallback)] :
                    m \in Tokens(stages.watsu)})

C8_Witness ==
  /\ C8_Case /\ C8_Fallback = tAnxiety
  /\ Contains(stages.converted, makeServicesLink(tAnxiety))

\* The link the placeholder m becomes when it is rendered with the tag c.
C9_Rendered(m, c) ==
  IF m.type = PlaceholderTypes[1] THEN ServicesLinkText(c)
  ELSE IF m.type = PlaceholderTypes[2] THEN SuppsLinkText(c)
  ELSE ArticlesLinkText(c)

\* The placeholder resolver ran on a text whose tokens all have a name
\* that canonicalizes to an allow-listed tag.
C9_CaseAsStated ==
  /\ pc = "done" /\ stages.converted # URIError
  /\ Tokens(stages.watsu) # {}
  /\ \A m \in Tokens(stages.watsu) : normalizeTag(m.name) \notin {None, URIError}

\* C9 as stated: every such token is rendered with the canonical form of
\* its own name.
C9_AsStated ==
  C9_CaseAsStated =>
    stages.converted =
      SpliceFrom(stages.watsu, 1,
                 {[start |-> m.start, end |-> m.end,
                   by |-> C9_Rendered(m, normalizeTag(m.name))] :
                    m \in Tokens(stages.watsu)})

\* As C9_CaseAsStated, and no token is a services token whose canonical tag
\* is blocklisted.
C9_Case ==
  /\ C9_CaseAsStated
  /\ \A m \in Tokens(stages.watsu) :
       ~(m.type = PlaceholderTypes[1] /\ normalizeTag(m.name) \in SERVICE_TAG_BLOCKLIST)

\* C9: a token whose name canonicalizes to an allow-listed tag is rendered
\* with that tag, whatever the preferred tag is, unless it is a services
\* token and the tag is blocklisted.
C9_NameBeforePreferred ==
  C9_Case =>
    stages.converted =
      SpliceFrom(stages.watsu, 1,
                 {[start |-> m.start, end |-> m.end,
                   by |-> C9_Rendered(m, normalizeTag(m.name))] :
                    m \in Tokens(stages.watsu)})

C9_Witness ==
  /\ C9_Case
  /\ normalizeTag(preferred) = tSleep
  /\ Contains(stages.converted, makeSuppsLink(tAnxiety))

\* C10: when the allow-list file is missing, is no array or has an element
\* that is no string, the process starts with an empty registry, and a
\* reply has no tagged link and no footer.
C10_RegistryDegrades ==
  (/\ proc # "boot"
   /\ \/ tagsFile.kind # "array"
      \/ \E i \in 1..Len(tagsFile.value) : tagsFile.value[i] = NonString)
    => /\ proc = "up"
       /\ allowedTags = << >>
       /\ Replied =>
            /\ ~Contains(response.reply, <<QS>>)
            /\ ~Contains(response.reply, <<FOOTER_HEAD>>)

\* The generic failure response of the handler.
C11_FailureResponse == [status |-> 500, reply |-> None]

\* C11: the generator is called at most once per request; when it throws or
\* returns no content the handler answers with the failure response and
\* with no post-processed reply; and the handler answers with the failure
\* response in no other case.
C11_FailureIffGeneratorFailed ==
  /\ upstream.calls <= 1
  /\ pc = "done" =>
       /\ upstream.outcome \in {"threw", "empty"}
            => response = C11_FailureResponse /\ stages.final = None
       /\ response = C11_FailureResponse
            => upstream.outcome \in {"threw", "empty"}

\* C12: whatever the generator returned, no step of the post-processing
\* throws, and the handler answers with a reply.
C12_PostProcessingNeverThrows ==
  (pc = "done" /\ upstream.outcome \in {"content", "empty"})
    => /\ stages.converted # URIError
       /\ stages.sanitized # URIError
       /\ stages.enforced # URIError
       /\ response.status = 200

\* C13: no step of the post-processing runs before the generator has
\* returned, and a returned reply is the generator's content passed, once
\* and in this order, through the placeholder resolver, the link
\* sanitizer, the section enforcer and the footer, each working on what
\* the step before it left.
C13_StagesInOrder ==
  /\ pc = "awaiting" => upstream.outcome = "pending" /\ stages = NoStages
  /\ Replied =>
       /\ upstream.outcome \in {"content", "empty"}
       /\ stages.watsu = ApplyWatsu(LastUserMsg(inbound), stages.gen)
       /\ stages.converted = convertPlaceholders(stages.watsu, preferred)
       /\ stages.sanitized = sanitizeLinks(stages.converted, preferred)
       /\ stages.enforced = ensureSectionsHaveOneLink(stages.sanitized, preferred)
       /\ stages.footer = FooterTags(preferred, UserTextAll(inbound), stages.enforced)
       /\ response.reply = stages.enforced \o FooterBlock(stages.footer)

\* A reply whose text each of the four steps changed.
C13_Witness ==
  /\ Replied
  /\ stages.converted # stages.watsu
  /\ stages.sanitized # stages.converted
  /\ stages.enforced # stages.sanitized
  /\ response.reply # stages.enforced

\* The keyword rules the message msg matches, by their place in the list.
C14_Matching(msg) ==
  {i \in 1..Len(KEYWORD_TO_TAG) : msg # None /\ KeywordTest(KEYWORD_TO_TAG[i].re, msg)}

\* C14: the preferred tag of a request is the first tag the extractor finds
\* in the latest user message; when it finds none, the tag of the first
\* matching rule in the order Sleep, Anxiety, Stress, Brain, Mood, cancer
\* family, wherever in the message the rules match; and none when no rule
\* matches.
C14_PreferredByPriority ==
  /\ [i \in 1..5 |-> KEYWORD_TO_TAG[i].tag] = <<tSleep, tAnxiety, tStress, tBrain, tMood>>
  /\ Len(KEYWORD_TO_TAG) = 6 /\ KEYWORD_TO_TAG[6].tag \in {tCancerSupport, tCancer}
  /\ pc = "awaiting" =>
       \A msg \in {LastUserMsg(inbound)} : \A hits \in {extractTagsFrom(msg)} :
         preferred = IF hits # << >> THEN hits[1]
                     ELSE IF C14_Matching(msg) # {}
                          THEN KEYWORD_TO_TAG[Min(C14_Matching(msg))].tag
                     ELSE None

\* The extractor found no tag, the Anxiety rule and the Stress rule both
\* match, the Stress rule earlier in the message, and the preferred tag is
\* Anxiety.
C14_Witness ==
  /\ pc = "awaiting"
  /\ extractTagsFrom(LastUserMsg(inbound)) = << >>
  /\ C14_Matching(LastUserMsg(inbound)) = {2, 3}
  /\ LastUserMsg(inbound) = <<"g","i","f","t","s"," ","a","s","i","d","e",","," ","s","t","r","e","s","s"," ","m","a","k","e","s"," ","m","e"," ","a","n","x","i","o","u","s">>
  /\ preferred = tAnxiety

\* C15: the preferred tag of a request is none or a tag of the allow-list.
C15_PreferredAllowListed ==
  pc \in {"awaiting", "done"} => preferred = None \/ preferred \in allowedTagsSet

\* C16: the link sanitizer returns a text, and every services, supplements
\* or all-collection link of that text that carries a tag carries a tag of
\* the allow-list, a services link one that is not blocklisted.
C16_SanitizerChecksEveryTag ==
  (pc = "done" /\ upstream.outcome = "content" /\ stages.converted # URIError) =>
    /\ stages.sanitized # URIError
    /\ \A coll \in {U_SERVICES, U_SUPPS, U_ALL} :
         \A i \in LinksTo(stages.sanitized, coll) :
           \/ TagOfLink(stages.sanitized, i) = None
           \/ /\ TagOfLink(stages.sanitized, i) \in allowedTagsSet
              /\ coll = U_SERVICES
                   => TagOfLink(stages.sanitized, i) \notin SERVICE_TAG_BLOCKLIST

\* The slug of the blog link at index i of s.
C17_SlugAt(s, i) == SubSeq(s, i + 1, RunEnd(s, i + 1, LinkStop) - 1)

\* C17: after the link sanitizer the slug of every blog link is the slug of
\* a tag of the allow-list or the fallback slug.
C17_BlogSlugsCanonical ==
  (pc = "done" /\ upstream.outcome = "content" /\ stages.sanitized # URIError) =>
    \A i \in LinksTo(stages.sanitized, U_BLOG) :
      \/ C17_SlugAt(stages.sanitized, i) = <<"w","e","l","l","n","e","s","s">>
      \/ \E t \in allowedTagsSet :
           C17_SlugAt(stages.sanitized, i) = slugifyTagForBlog(t)

\* Whether the section enforcer has a tag for the section sec.
C18_TagResolves(sec) ==
  IF sec = "services" THEN SectionServiceTag(normalizeTag(preferred)) # None
  ELSE normalizeTag(preferred) # None

\* C18: for each section heading of the text for which a tag resolves, the
\* text the section enforcer returns has exactly one link to the section's
\* collection, and it is on the line right after the heading's line; for a
\* section for which no tag resolves the enforcer adds no link.
C18_OneLinkRightAfterHeading ==
  (pc = "done" /\ upstream.outcome = "content" /\ stages.enforced # URIError) =>
    \A sec \in Sections :
      \A m \in {HeadingMatch(stages.enforced, sec)} :
        HeadingMatch(stages.sanitized, sec).ok =>
          IF C18_TagResolves(sec)
          THEN /\ Cardinality(LinksTo(stages.enforced, SectionCollection(sec))) = 1
               /\ \A i \in LinksTo(stages.enforced, SectionCollection(sec)) :
                    /\ m.ok /\ m.end <= i
                    /\ stages.enforced[m.end - 1] = "\n"
                    /\ \A j \in m.end..(i - 1) : stages.enforced[j] # "\n"
          ELSE Cardinality(LinksTo(stages.enforced, SectionCollection(sec)))
                 <= Cardinality(LinksTo(stages.sanitized, SectionCollection(sec)))

\* The elements of the sequence xs.
C19_Range(xs) == {xs[i] : i \in 1..Len(xs)}

\* The tags the user's messages mention, and the tags the text the footer
\* is appended to mentions.
C19_HistoryTags == extractTagsFrom(UserTextAll(inbound))
C19_ReplyTags   == extractTagsFrom(Expand(stages.enforced))

\* C19 as stated: the footer lists the tags, of those the footer may show,
\* of the first of these that is not empty: the preferred tag with its
\* neighbours in the graph, the tags the user's messages mention, the tags
\* the reply mentions.
C19_AsStated ==
  Replied =>
    \A hist \in {C19_HistoryTags} :
      C19_Range(stages.footer) =
        {t \in C19_Range(IF preferred # None THEN <<preferred>> \o RelatedOf(preferred)
                         ELSE IF hist # << >> THEN hist
                         ELSE C19_ReplyTags) : FooterOk(t)}

\* C19: the footer lists, in this order and without the tags it may not
\* show, the preferred tag and then its neighbours in the order of the
\* graph when there is a preferred tag; else the first four of the tags
\* the user's messages mention; and the tags the reply mentions when that
\* list, before it is filtered, is empty; at most eight tags in all.
C19_FooterPriority ==
  Replied =>
    \A hist \in {C19_HistoryTags} :
      stages.footer =
        Take(SelectSeq(Dedup(IF preferred # None
                             THEN <<preferred>> \o RelatedOf(preferred)
                             ELSE IF hist # << >> THEN Take(hist, 4)
                             ELSE C19_ReplyTags), FooterOk), 8)

\* There is no preferred tag, the user's messages mention five tags of the
\* allow-list and the footer lists the first four of them.
C19_Witness ==
  /\ Replied /\ preferred = None
  /\ C19_HistoryTags = <<tSleep, tAnxiety, tStress, tMood, tBrain>>
  /\ stages.footer = <<tSleep, tAnxiety, tStress, tMood>>

\* The indexes of the links of the shop-by-category footer of s.
C20_FooterLinks(s) ==
  {i \in LinksTo(s, U_ALL) : \E h \in 1..(i - 1) : s[h] = FOOTER_HEAD}

\* The tag of the footer link at index i of s: a line of the footer ends
\* with the ")" that closes its link, so the tag may have a ")" of its own.
C20_TagAt(s, i) ==
  decodeURIComponent(SubSeq(s, i + 2, RunEnd(s, i, {"\n"}) - 2))

\* C20: the tags of the links of the footer of a returned text are pairwise
\* distinct, are tags of the allow-list, and none is in the footer denylist.
C20_FooterTagsFiltered ==
  Replied =>
    \A i \in C20_FooterLinks(response.reply) :
      /\ C20_TagAt(response.reply, i) \in allowedTagsSet
      /\ C20_TagAt(response.reply, i) \notin TAG_DENYLIST_FOOTER
      /\ \A j \in C20_FooterLinks(response.reply) :
           i # j => C20_TagAt(response.reply, i) # C20_TagAt(response.reply, j)

\* The preferred tag was inferred by a keyword rule and is no tag of the
\* allow-list, and the footer lists its neighbour but not the tag itself.
C20_Witness ==
  /\ Replied
  /\ extractTagsFrom(LastUserMsg(inbound)) = << >>
  /\ preferred = tSleep /\ tSleep \notin allowedTagsSet
  /\ C20_FooterLinks(response.reply) # {}
  /\ {C20_TagAt(response.reply, i) : i \in C20_FooterLinks(response.reply)} = {tAnxiety}

\* The preferred tag is in the footer denylist and the returned text has
\* no footer.
C20_WitnessDenylisted ==
  /\ Replied
  /\ preferred = tGifts /\ tGifts \in allowedTagsSet
  /\ C20_FooterLinks(response.reply) = {}

\* The requests the handler answered with a reply.
SessionReplied == {r \in RequestIds : reqs[r].pc = "done" /\ reqs[r].status = 200}

C22_NoSharedMutation ==
  [][(reqs' # reqs) => (allowedTags' = allowedTags /\ sessions' = sessions)]_vars

\* The non-system messages of the request r followed by its reply, and of
\* these the last MAX_TURNS.
C26_LastTurns(r) ==
  LET h == SelectSeq(reqs[r].inbound, LAMBDA m : m.role # "system")
             \o <<[role |-> "assistant", content |-> reqs[r].reply]>>
  IN [i \in 1..Min({Len(h), MAX_TURNS}) |-> h[Len(h) - Min({Len(h), MAX_TURNS}) + i]]

\* The request that was the last to be answered with a reply under the
\* clientId c.
C26_LastWriter(c, r) ==
  /\ r \in SessionReplied /\ reqs[r].clientId = c
  /\ \A q \in SessionReplied : reqs[q].clientId = c => reqs[q].order <= reqs[r].order

\* C26: the session of every clientId holds at most MAX_TURNS = 30
\* messages: the last 30 of the non-system messages of the request that
\* wrote it followed by the reply of that request.
C26_SessionLastTurns ==
  /\ MAX_TURNS = 30
  /\ \A c \in DOMAIN sessions :
       /\ Len(sessions[c].messages) <= MAX_TURNS
       /\ \E r \in RequestIds :
            C26_LastWriter(c, r) /\ sessions[c].messages = C26_LastTurns(r)

\* A request sent a system message and thirty others: its session holds
\* thirty messages, from the second of the others to the reply.
C26_Witness ==
  \E r \in RequestIds : \E c \in ClientIds :
    /\ C26_LastWriter(c, r)
    /\ reqs[r].inbound = Conversation(MAX_TURNS + 1)
    /\ c \in DOMAIN sessions
    /\ Len(sessions[c].messages) = 30
    /\ sessions[c].messages[1] = Conversation(MAX_TURNS + 1)[3]
    /\ sessions[c].messages[30] = [role |-> "assistant", content |-> reqs[r].reply]

\* C27: the step that answers a request with the failure response leaves
\* the session of every clientId as it was, and the session store changes
\* only in the step that answers a request that has a clientId with a
\* reply, the reply being computed in that step.
C27_FailureKeepsSessions ==
  [][/\ \A r \in RequestIds :
          (reqs[r].pc = "awaiting" /\ reqs'[r].pc = "done" /\ reqs'[r].status = 500)
            => sessions' = sessions
     /\ sessions' # sessions =>
          \E r \in RequestIds :
            /\ reqs[r].pc = "awaiting" /\ reqs'[r].pc = "done"
            /\ reqs'[r].status = 200 /\ reqs[r].clientId # None
            /\ reqs'[r].reply = HandlerReply(reqs[r].inbound, reqs'[r].content)]_vars

\* A request with a clientId was answered with the failure response after
\* the generator had returned, and the session of its clientId is the one
\* an earlier request wrote.
C27_Witness ==
  \E r \in RequestIds : \E q \in RequestIds :
    /\ reqs[r].pc = "done" /\ reqs[r].status = 500 /\ reqs[r].content # None
    /\ reqs[r].clientId \in ClientIds
    /\ reqs[q].clientId = reqs[r].clientId
    /\ q \in SessionReplied /\ reqs[q].order < reqs[r].order
    /\ sessions[reqs[r].clientId].messages = C26_LastTurns(q)

\* The requests r and q were both waiting for the generator at some time.
C28_Overlap(r, q) ==
  /\ r # q /\ reqs[r].pc = "done" /\ reqs[q].pc = "done"
  /\ reqs[r].arrived < reqs[q].order /\ reqs[q].arrived < reqs[r].order

\* The generator returned to the request r.
C28_Returned(r) == ~(reqs[r].status = 500 /\ reqs[r].content = None)

\* C28: when two requests with the same clientId overlap and the generator
\* returns to both, the session of the clientId is the history of the
\* request to which it returned last; and no request changes the session
\* of another clientId.
C28_LastCompletedWins ==
  /\ \A r \in RequestIds : \A q \in RequestIds :
       (/\ C28_Overlap(r, q) /\ reqs[r].clientId = reqs[q].clientId
        /\ reqs[r].clientId \in ClientIds
        /\ C28_Returned(r) /\ C28_Returned(q) /\ reqs[q].order < reqs[r].order)
         => /\ r \in SessionReplied
            /\ sessions[reqs[r].clientId].messages = C26_LastTurns(r)
  /\ \A c \in DOMAIN sessions : \E r \in SessionReplied : reqs[r].clientId = c

\* The names of the alias table, and a name that has the substring.
C23_AliasNames ==
  {<<"c","a","n","c","e","r">>, <<"b","r","e","a","s","t"," ","c","a","n","c","e","r">>, <<"o","n","c","o","l","o","g","y">>, <<"c","h","e","m","o","t","h","e","r","a","p","y">>, <<"r","a","d","i","a","t","i","o","n">>,
   <<"s","k","i","n"," ","c","a","n","c","e","r">>}

\* C23: a supplements placeholder whose name is no tag of the allow-list
\* but is in the alias table, or has the substring "cancer", is rendered,
\* with no preferred tag, as a link with the tag Cancer Support when that
\* tag is in the allow-list, and as no link when it is not.
C23_AliasesResolve ==
  (pc = "done" /\ stages.converted # URIError /\ preferred = None
   /\ LinksTo(stages.watsu, U_SUPPS) = {}) =>
    \A m \in Tokens(stages.watsu) :
      (/\ m.type = PlaceholderTypes[2]
       /\ toLowerCase(m.name) \in C23_AliasNames
       /\ \A t \in allowedTagsSet : toLowerCase(t) # toLowerCase(m.name))
        => IF tCancerSupport \in allowedTagsSet
           THEN \E i \in LinksTo(stages.converted, U_SUPPS) :
                  TagOfLink(stages.converted, i) = tCancerSupport
           ELSE LinksTo(stages.converted, U_SUPPS) = {}

\* The indexes of s where the target of a markdown link to coll starts that
\* has a tag: a filter for a collection of the shop, a slug for the blog.
C24_MdLinks(s, coll) ==
  {i \in LinksTo(s, coll) :
     /\ i > 1 /\ s[i - 1] = "("
     /\ coll = U_BLOG \/ (i < Len(s) /\ s[i + 1] = QS)}

\* The first tag of the fallback preferences that the allow-list has.
C24_Fallback ==
  LET prefs == <<tStress, tSleep, tAnxiety, tBodywork, tAdaptThrive>>
      ok    == {i \in 1..Len(prefs) : prefs[i] \in allowedTagsSet}
  IN IF ok = {} THEN None ELSE prefs[Min(ok)]

\* The preferred tag is absent, is no tag of the allow-list or is
\* blocklisted for services.
C24_Case ==
  /\ pc = "done" /\ stages.sanitized # URIError /\ stages.sanitized # None
  /\ \/ preferred = None
     \/ preferred \notin allowedTagsSet
     \/ preferred \in SERVICE_TAG_BLOCKLIST

\* C24: in that case the markdown link of the text the section enforcer
\* returns for a Services heading has the first fallback preference of the
\* allow-list, and there is none when the allow-list has no preference;
\* the links for the Supplements and Articles headings have the preferred
\* tag, and there is none when the preferred tag is no tag of the
\* allow-list.
C24_ServicesFallback ==
  C24_Case =>
    /\ HeadingMatch(stages.sanitized, "services").ok =>
         IF C24_Fallback = None
         THEN C24_MdLinks(stages.enforced, U_SERVICES) = {}
         ELSE /\ Cardinality(C24_MdLinks(stages.enforced, U_SERVICES)) = 1
              /\ \A i \in C24_MdLinks(stages.enforced, U_SERVICES) :
                   TagOfLink(stages.enforced, i) = C24_Fallback
    /\ HeadingMatch(stages.sanitized, "supplements").ok =>
         IF preferred \in allowedTagsSet
         THEN /\ Cardinality(C24_MdLinks(stages.enforced, U_SUPPS)) = 1
              /\ \A i \in C24_MdLinks(stages.enforced, U_SUPPS) :
                   TagOfLink(stages.enforced, i) = preferred
         ELSE C24_MdLinks(stages.enforced, U_SUPPS) = {}
    /\ HeadingMatch(stages.sanitized, "articles").ok =>
         IF preferred \in allowedTagsSet
         THEN /\ Cardinality(C24_MdLinks(stages.enforced, U_BLOG)) = 1
              /\ \A i \in C24_MdLinks(stages.enforced, U_BLOG) :
                   C17_SlugAt(stages.enforced, i) = slugifyTagForBlog(preferred)
         ELSE C24_MdLinks(stages.enforced, U_BLOG) = {}

\* The preferred tag Cancer Support is blocklisted, the allow-list has
\* Anxiety as its first fallback preference, and the returned text has a
\* services link with Anxiety and a supplements link with Cancer Support.
C24_Witness ==
  /\ C24_Case /\ preferred = tCancerSupport /\ C24_Fallback = tAnxiety
  /\ HeadingMatch(stages.sanitized, "services").ok
  /\ HeadingMatch(stages.sanitized, "supplements").ok
  /\ \E i \in C24_MdLinks(stages.enforced, U_SERVICES) :
       TagOfLink(stages.enforced, i) = tAnxiety
  /\ \E i \in C24_MdLinks(stages.enforced, U_SUPPS) :
       TagOfLink(stages.enforced, i) = tCancerSupport

\* /watsu|aquatic bodywork|water\s*shiatsu|waterdance/i matches the latest
\* user message or the content the generator returned.
C25_MentionsWatsu ==
  /\ pc = "done" /\ upstream.outcome \in {"content", "empty"}
  /\ ContainsAny(WatsuKeywords, LastUserMsg(inbound) \o <<"\n">> \o Expand(stages.gen))

\* The text has the direct link of the Watsu product.
C25_HasDirectLink(text) ==
  /\ text # URIError
  /\ Contains(Expand(text), AtomText[WATSU_URL])

\* C25: whenever the latest user message or the generator's reply mentions
\* Watsu (or aquatic bodywork, water shiatsu, waterdance), the text that is
\* returned has the direct link of the Watsu product, and so has the text
\* that every step after the Watsu step leaves.
C25_WatsuLinkReturned ==
  C25_MentionsWatsu =>
    /\ response.status = 200
    /\ C25_HasDirectLink(response.reply)
    /\ \A text \in {stages.watsu, stages.converted, stages.sanitized, stages.enforced} :
         C25_HasDirectLink(text)

\* The preferred tags sanitizeLinks is applied with: none, the one of the
\* request and every tag of the allow-list.
C29_Preferred == {None, preferred} \cup allowedTagsSet

\* The text the placeholder resolver returned, when it has returned one.
C29_Converted ==
  /\ pc = "done" /\ upstream.outcome \in {"content", "empty"}
  /\ stages.converted # URIError

\* Every link of the text the placeholder resolver returned was rendered by
\* the resolver: the text it was given has no link of its own.
C29_OnlyRendered ==
  /\ C29_Converted
  /\ \A u \in {U_SERVICES, U_SUPPS, U_ALL, U_BLOG} : LinksTo(stages.watsu, u) = {}

\* C29: sanitizeLinks is idempotent, sanitizeLinks(sanitizeLinks(x, p), p) =
\* sanitizeLinks(x, p), and it leaves every link unchanged that
\* convertPlaceholders rendered for a tag of the allow-list.
C29_SanitizerIdempotent ==
  /\ C29_Converted =>
       \A p \in C29_Preferred :
         \A y \in {sanitizeLinks(stages.converted, p)} :
           y # URIError => sanitizeLinks(y, p) = y
  /\ C29_OnlyRendered =>
       \A p \in C29_Preferred : sanitizeLinks(stages.converted, p) = stages.converted

\* The collection of the links of each section.
C30_Collection(sec) ==
  IF sec = "services" THEN U_SERVICES
  ELSE IF sec = "supplements" THEN U_SUPPS ELSE U_BLOG

\* The markdown links of s to the tag-scoped URL of coll, [label](URL...):
\* start the index of "[", end the index after ")".
C30_MdLinks(s, coll) ==
  {[start |-> Max({j \in 1..(i - 3) : s[j] = "["}),
    end   |-> Min({j \in (i + 2)..Len(s) : s[j] = ")"}) + 1,
    by    |-> << >>] :
     i \in {x \in LinksTo(s, coll) :
              /\ x > 3 /\ s[x - 1] = "(" /\ s[x - 2] = "]"
              /\ \E j \in 1..(x - 4) : s[j] = "["
              /\ \E j \in (x + 2)..Len(s) : s[j] = ")"
              /\ coll = U_BLOG \/ s[x + 1] = QS}}

\* The text s with each run of three or more newlines made two.
C30_Collapse(s) ==
  LET keep == {k \in 1..Len(s) :
                 ~(k > 2 /\ s[k] = "\n" /\ s[k - 1] = "\n" /\ s[k - 2] = "\n")}
      nth(n) == CHOOSE k \in keep : Cardinality({j \in keep : j <= k}) = n
  IN [n \in 1..Cardinality(keep) |-> s[nth(n)]]

\* The text the section enforcer was given has no heading line of sec.
C30_NoHeading(sec) ==
  /\ pc = "done" /\ upstream.outcome \in {"content", "empty"}
  /\ stages.enforced # URIError
  /\ ~HeadingMatch(stages.sanitized, sec).ok

\* C30: when the reply has no heading line of a section, the text the
\* section enforcer returns has no markdown link to the tag-scoped URL of
\* the section's collection, neither one of the reply nor an inserted one;
\* when it has no heading line of any section, the text returned is the
\* reply without those markdown links and with each run of three or more
\* newlines made two.
C30_NoHeadingFrame ==
  /\ \A sec \in Sections :
       C30_NoHeading(sec) => C30_MdLinks(stages.enforced, C30_Collection(sec)) = {}
  /\ (\A sec \in Sections : C30_NoHeading(sec)) =>
       stages.enforced =
         C30_Collapse(SpliceFrom(stages.sanitized, 1,
                        UNION {C30_MdLinks(stages.sanitized, C30_Collection(sec)) :
                                 sec \in Sections}))

\* A reply without a heading line that has a markdown link to the
\* tag-scoped URL of the services, for a request that has a preferred tag.
C30_Witness ==
  /\ \A sec \in Sections : C30_NoHeading(sec)
  /\ C30_MdLinks(stages.sanitized, U_SERVICES) # {}
  /\ normalizeTag(preferred) # None
  /\ stages.enforced # stages.sanitized

====
